---------------------------- MODULE Spec2Model ----------------------------
(***************************************************************************)
(* Email-Rewriter: the pricing table (src/config/pricing.py), the rewrite  *)
(* service (src/services/email_service.py) and the /rewrite and            *)
(* /rewrite-upload handlers (src/api/app.py).                              *)
(*                                                                         *)
(* Text that the code inspects character by character (model names,        *)
(* completion text, tones) is a sequence of one-character strings.         *)
(* Money is an integer: prices are micro-USD per 1,000 tokens (that is,    *)
(* nano-USD per token) and costs are micro-USD, so a value rounded to 6    *)
(* decimal places of a dollar is exactly an integer number of micro-USD.   *)
(***************************************************************************)
EXTENDS Integers, Sequences, FiniteSets, TLC

(***************************************************************************)
(* Bounds of the model                                                     *)
(***************************************************************************)
\* token counts drawn for calculate_cost: -1 .. MaxTok and a few larger ones
MaxTok == 2
\* whitespace characters put in front of / behind a model name
MaxPad == 1
\* length of the text a completion returns
MaxContentLen == 2
\* usage counters a completion reports: 0 .. MaxUsageTok and a few larger ones
MaxUsageTok == 1
\* EmailService objects constructed in one run
MaxInstances == 2

NONE == "None"

(***************************************************************************)
(* str.lower(), str.strip(), str.startswith()                              *)
(***************************************************************************)
LOWERCASE ==
    << "a","b","c","d","e","f","g","h","i","j","k","l","m",
       "n","o","p","q","r","s","t","u","v","w","x","y","z" >>
UPPERCASE ==
    << "A","B","C","D","E","F","G","H","I","J","K","L","M",
       "N","O","P","Q","R","S","T","U","V","W","X","Y","Z" >>
WHITESPACE == {" ", "\t", "\n"}

lower_char(c) ==
    IF \E i \in 1..Len(UPPERCASE) : UPPERCASE[i] = c
    THEN LOWERCASE[CHOOSE i \in 1..Len(UPPERCASE) : UPPERCASE[i] = c]
    ELSE c

upper_char(c) ==
    IF \E i \in 1..Len(LOWERCASE) : LOWERCASE[i] = c
    THEN UPPERCASE[CHOOSE i \in 1..Len(LOWERCASE) : LOWERCASE[i] = c]
    ELSE c

lower(s) == [i \in 1..Len(s) |-> lower_char(s[i])]

upper(s) == [i \in 1..Len(s) |-> upper_char(s[i])]

strip(s) ==
    LET keep == {i \in 1..Len(s) : s[i] \notin WHITESPACE}
    IN  IF keep = {} THEN << >>
        ELSE LET first == CHOOSE i \in keep : \A j \in keep : i <= j
                 last  == CHOOSE i \in keep : \A j \in keep : j <= i
             IN  SubSeq(s, first, last)

startswith(s, prefix) ==
    /\ Len(prefix) <= Len(s)
    /\ SubSeq(s, 1, Len(prefix)) = prefix

(***************************************************************************)
(* PRICING_CONFIG: an insertion-ordered dict, modelled as the sequence of  *)
(* its items.  0.005 USD per 1K tokens is 5000 micro-USD per 1K tokens.    *)
(***************************************************************************)
K_GPT_4O        == << "g","p","t","-","4","o" >>
K_GPT_4O_MINI   == << "g","p","t","-","4","o","-","m","i","n","i" >>
K_GPT_4_TURBO   == << "g","p","t","-","4","-","t","u","r","b","o" >>
K_GPT_4         == << "g","p","t","-","4" >>
K_GPT_35_TURBO  == << "g","p","t","-","3",".","5","-","t","u","r","b","o" >>

PRICING_CONFIG ==
    << [key |-> K_GPT_4O,       input |-> 5000,  output |-> 15000],
       [key |-> K_GPT_4O_MINI,  input |-> 150,   output |-> 600],
       [key |-> K_GPT_4_TURBO,  input |-> 10000, output |-> 30000],
       [key |-> K_GPT_4,        input |-> 30000, output |-> 60000],
       [key |-> K_GPT_35_TURBO, input |-> 1500,  output |-> 2000] >>

Prices(entry) == [input |-> entry.input, output |-> entry.output]

\* cfg[key]
config_item(cfg, key) == cfg[CHOOSE i \in 1..Len(cfg) : cfg[i].key = key]

\* key in cfg
config_has(cfg, key) == \E i \in 1..Len(cfg) : cfg[i].key = key

(***************************************************************************)
(* State                                                                   *)
(***************************************************************************)
VARIABLES
    pricing_config,   \* the module-level dict PRICING_CONFIG
    pricing_call,     \* the last call into the pricing module and its outcome
    env,              \* the process environment (os.getenv)
    svc,              \* the EmailService object in use
    pc,               \* where the request in progress stands
    entry,            \* who invoked rewrite_email: a handler or a direct caller
    args,             \* the arguments of the rewrite_email invocation
    completion_calls, \* the chat.completions.create calls this invocation issued
    response,         \* what the completion call came back with
    outcome,          \* how rewrite_email ended: a returned dict or a raised exception
    http,             \* what the handler answered
    validation_call,  \* the last EmailRewriteRequest built and what validation gave
    extraction_call,  \* the last call of extract_text_from_file and its outcome
    prompt_call,      \* the last call of get_email_rewrite_prompt and its outcome
    folder,           \* the input directory, processed/, errors/ and the output directory
    monitor,          \* the InputFolderMonitor object and where its loop stands
    batch             \* the /process-input-folder request in progress and its answer

pricing_vars == <<pricing_config, pricing_call>>

lib_vars == <<validation_call, extraction_call, prompt_call>>

monitor_vars == <<folder, monitor, batch>>

service_vars ==
    <<env, svc, pc, entry, args, completion_calls, response, outcome, http>>

vars == <<pricing_config, pricing_call,
          env, svc, pc, entry, args, completion_calls, response, outcome, http,
          validation_call, extraction_call, prompt_call, folder, monitor, batch>>

(***************************************************************************)
(* get_model_pricing                                                       *)
(***************************************************************************)
\* C2 mutant: the direct-match step is missing, only the prefix loop runs
get_model_pricing_prefix_only(cfg, model_name) ==
    LET model_key == strip(lower(model_name))
        hits      == {i \in 1..Len(cfg) : startswith(model_key, cfg[i].key)}
    IN  IF hits # {}
        THEN Prices(cfg[CHOOSE i \in hits : \A j \in hits : i <= j])
        ELSE Prices(config_item(cfg, K_GPT_4O))

\* C4 mutant: the fallback returns the entry named after the service default
\* model (gpt-4) instead of gpt-4o
get_model_pricing_fallback_gpt4(cfg, model_name) ==
    LET model_key == strip(lower(model_name))
        hits      == {i \in 1..Len(cfg) : startswith(model_key, cfg[i].key)}
    IN  IF config_has(cfg, model_key)
        THEN Prices(config_item(cfg, model_key))
        ELSE IF hits # {}
        THEN Prices(cfg[CHOOSE i \in hits : \A j \in hits : i <= j])
        ELSE Prices(config_item(cfg, K_GPT_4))

get_model_pricing(cfg, model_name) ==
    LET model_key == strip(lower(model_name))
        \* the keys the loop over cfg.keys() would accept, by position
        hits      == {i \in 1..Len(cfg) : startswith(model_key, cfg[i].key)}
    IN  IF config_has(cfg, model_key)
        THEN Prices(config_item(cfg, model_key))
        ELSE IF hits # {}
        THEN Prices(cfg[CHOOSE i \in hits : \A j \in hits : i <= j])
        ELSE Prices(config_item(cfg, K_GPT_4O))

(***************************************************************************)
(* round(x, ndigits) on the float x = a/1000*pin + b/1000*pout.            *)
(* nano is the exact value of the sum in nano-USD and unit the size of the *)
(* last kept digit in nano-USD.  Off an exact decimal tie the float is     *)
(* close enough to the exact value that round() returns the nearest        *)
(* multiple of unit.  On an exact decimal tie the IEEE-754 double that the *)
(* expression produces lies strictly on one side of the midpoint and       *)
(* round() follows it: tie_up says that it lies above.                     *)
(***************************************************************************)
round_nearest(nano, unit, tie_up) ==
    LET q == nano \div unit        \* floor
        r == nano % unit           \* 0 .. unit-1
    IN  IF 2 * r < unit THEN q
        ELSE IF 2 * r > unit THEN q + 1
        ELSE IF tie_up THEN q + 1 ELSE q

\* The exact ties <<input_tokens, output_tokens, input price, output price>>
\* on which (a/1000)*pin + (b/1000)*pout evaluates to a double above the
\* midpoint, for token counts in {-50, -1, 0, 1, 2, 3, 50, 100} and the
\* prices of PRICING_CONFIG (every other tie there evaluates below it).
TIES_UP_6 ==
    { <<-50, -50, 150, 600>>, <<-50, 0, 150, 600>>, <<2, 2, 150, 600>>,
      <<50, -50, 150, 600>>,
      <<-1, -1, 1500, 2000>>, <<-1, 3, 1500, 2000>>, <<-1, 50, 1500, 2000>>,
      <<-1, 100, 1500, 2000>>, <<1, -1, 1500, 2000>>, <<1, 0, 1500, 2000>>,
      <<1, 3, 1500, 2000>>, <<1, 50, 1500, 2000>>, <<1, 100, 1500, 2000>>,
      <<3, -1, 1500, 2000>>, <<3, 0, 1500, 2000>>, <<3, 1, 1500, 2000>>,
      <<3, 3, 1500, 2000>>, <<3, 50, 1500, 2000>>, <<3, 100, 1500, 2000>> }

(***************************************************************************)
(* calculate_cost: no branch of it raises; the result is in micro-USD      *)
(***************************************************************************)
\* C6 mutant: the sum is rounded to 4 decimal places
calculate_cost_round4(cfg, input_tokens, output_tokens, model_name) ==
    LET pricing == get_model_pricing(cfg, model_name)
        nano    == input_tokens * pricing.input + output_tokens * pricing.output
    IN  [raised |-> FALSE,
         value  |-> 100 * round_nearest(nano, 100000, FALSE)]

calculate_cost(cfg, input_tokens, output_tokens, model_name) ==
    LET pricing == get_model_pricing(cfg, model_name)
        \* input_cost + output_cost, exactly, in nano-USD
        nano    == input_tokens * pricing.input + output_tokens * pricing.output
        tie_up  == <<input_tokens, output_tokens, pricing.input, pricing.output>>
                       \in TIES_UP_6
    IN  [raised |-> FALSE,
         value  |-> round_nearest(nano, 1000, tie_up)]

(***************************************************************************)
(* Optional values.  None is "None" where the value is an atom, NoneText   *)
(* where it is a text, NoneList where it is a list of texts, and           *)
(* [kind |-> NONE] where it is a record.                                   *)
(***************************************************************************)
NoneText == << "None" >>
NoneRec  == [kind |-> NONE]
NoneList == << NoneText >>

(***************************************************************************)
(* Prompt templates.  A rendered prompt is the sequence of its pieces:     *)
(* Lit(line) is a line of the template, and a substituted value is the     *)
(* value itself, character by character.                                   *)
(***************************************************************************)
Lit(line) == << line >>

TONE_PROFESSIONAL == << "p","r","o","f","e","s","s","i","o","n","a","l" >>
TONE_CASUAL       == << "c","a","s","u","a","l" >>
TONE_ACADEMIC     == << "a","c","a","d","e","m","i","c" >>

\* Jinja2 filter: first character upper-cased, the rest lower-cased
capitalize(s) ==
    IF s = << >> THEN << >>
    ELSE << upper_char(s[1]) >> \o lower(SubSeq(s, 2, Len(s)))

get_base_system_prompt ==
    << Lit("You are an expert professional email writer and communication specialist with deep expertise in:"),
       Lit("- Corporate communication best practices"),
       Lit("- Tone and style adaptation for different audiences"),
       Lit("- Clear, concise, and effective writing"),
       Lit("- Professional email etiquette and formatting"),
       Lit("Your role is to rewrite emails to make them more effective, professional, and tailored to the target audience while maintaining the original intent and key information.") >>

\* the line of three backquotes that opens and closes the original email
CODE_FENCE == Lit("<three backquotes>")

\* C18 mutant: the descriptions of casual and academic change places
tone_description_swapped(tone) ==
    IF tone = TONE_PROFESSIONAL
    THEN Lit("formal, respectful, and business-appropriate")
    ELSE IF tone = TONE_CASUAL
    THEN Lit("scholarly, precise, and well-structured")
    ELSE IF tone = TONE_ACADEMIC
    THEN Lit("friendly, approachable, and conversational")
    ELSE Lit("balanced and appropriate for the context")

\* {% if tone == "professional" %} ... {% else %} ... {% endif %}
tone_description(tone) ==
    IF tone = TONE_PROFESSIONAL
    THEN Lit("formal, respectful, and business-appropriate")
    ELSE IF tone = TONE_CASUAL
    THEN Lit("friendly, approachable, and conversational")
    ELSE IF tone = TONE_ACADEMIC
    THEN Lit("scholarly, precise, and well-structured")
    ELSE Lit("balanced and appropriate for the context")

\* {% for area in focus_areas %} - Emphasize {{ area }}
RECURSIVE focus_bullets(_)
focus_bullets(areas) ==
    IF areas = << >> THEN << >>
    ELSE << Lit("- Emphasize "), Head(areas) >> \o focus_bullets(Tail(areas))

\* C19 mutant: the additional-instructions block renders for every string,
\* the empty one too
get_email_rewrite_prompt_empty_block(email_text, target_audience, tone, additional_instructions, focus_areas) ==
    LET areas == IF focus_areas = NoneList THEN << >> ELSE focus_areas
    IN  << Lit("## Task: Rewrite Professional Email"),
           Lit("### Original Email:"), CODE_FENCE, email_text, CODE_FENCE,
           Lit("### Target Audience/Context:"), target_audience,
           Lit("### Tone Requirement:"),
           capitalize(tone), Lit(" tone - "), tone_description(tone) >>
        \o ( IF areas # << >>
             THEN << Lit("### Key Focus Areas:") >> \o focus_bullets(areas)
             ELSE << >> )
        \o ( IF additional_instructions # NoneText
             THEN << Lit("### Additional Instructions:"), additional_instructions >>
             ELSE << >> )
        \o << Lit("### Guidelines:"),
              Lit("1. Maintain the core message and intent of the original email"),
              Lit("2. Improve clarity, conciseness, and readability"),
              Lit("3. Ensure appropriate greeting and closing"),
              Lit("4. Use proper email structure with clear paragraphs"),
              Lit("5. Adapt language and terminology for the target audience"),
              Lit("6. Remove redundancy and filler words"),
              Lit("7. Ensure professional formatting and grammar"),
              Lit("### Output Format:"),
              Lit("Provide only the rewritten email content without any explanations, comments, or metadata. The output should be ready to send as-is.") >>

\* rewrite_email passes no constraints, so the constraints block never renders
get_email_rewrite_prompt(email_text, target_audience, tone, additional_instructions, focus_areas) ==
    LET areas == IF focus_areas = NoneList THEN << >> ELSE focus_areas
    IN  << Lit("## Task: Rewrite Professional Email"),
           Lit("### Original Email:"), CODE_FENCE, email_text, CODE_FENCE,
           Lit("### Target Audience/Context:"), target_audience,
           Lit("### Tone Requirement:"),
           capitalize(tone), Lit(" tone - "), tone_description(tone) >>
        \o ( IF areas # << >>
             THEN << Lit("### Key Focus Areas:") >> \o focus_bullets(areas)
             ELSE << >> )
        \o ( IF additional_instructions \notin {NoneText, << >>}
             THEN << Lit("### Additional Instructions:"), additional_instructions >>
             ELSE << >> )
        \o << Lit("### Guidelines:"),
              Lit("1. Maintain the core message and intent of the original email"),
              Lit("2. Improve clarity, conciseness, and readability"),
              Lit("3. Ensure appropriate greeting and closing"),
              Lit("4. Use proper email structure with clear paragraphs"),
              Lit("5. Adapt language and terminology for the target audience"),
              Lit("6. Remove redundancy and filler words"),
              Lit("7. Ensure professional formatting and grammar"),
              Lit("### Output Format:"),
              Lit("Provide only the rewritten email content without any explanations, comments, or metadata. The output should be ready to send as-is.") >>

(***************************************************************************)
(* EmailService                                                            *)
(***************************************************************************)
DEFAULT_MODEL       == K_GPT_4
DEFAULT_MAX_TOKENS  == 2000
DEFAULT_TEMPERATURE == "0.7"

INJECTED_CLIENT == "injected client"
CREATED_CLIENT  == "AsyncOpenAI(api_key)"
\* a second AsyncOpenAI object made by the same service
RECREATED_CLIENT == "AsyncOpenAI(api_key) #2"

NoService ==
    [id |-> 0, scope |-> NONE, _client |-> NONE, model |-> NoneText,
     max_tokens |-> 0, temperature |-> NONE]

\* EmailService.__init__; scope records who owns the object
EmailService(e, id, scope, client) ==
    [id          |-> id,
     scope       |-> scope,
     _client     |-> client,
     model       |-> IF e.MODEL_NAME = NoneText THEN DEFAULT_MODEL ELSE e.MODEL_NAME,
     max_tokens  |-> DEFAULT_MAX_TOKENS,
     temperature |-> DEFAULT_TEMPERATURE]

ValueError(message) == [kind |-> "raised", type |-> "ValueError", message |-> message]

MSG_NO_API_KEY     == "OPENAI_API_KEY not found in environment variables"
MSG_EMPTY_RESPONSE == "OpenAI returned empty response"
MSG_NO_USAGE       == "OpenAI returned no usage data"

\* C9 mutant: the property builds a client from the environment on every
\* access and ignores the one it holds
client_property_always_new(self, e) ==
    IF e.OPENAI_API_KEY \in {NONE, ""}
    THEN [raised |-> TRUE, client |-> self._client]
    ELSE [raised |-> FALSE,
          client |-> IF self._client = CREATED_CLIENT
                     THEN RECREATED_CLIENT ELSE CREATED_CLIENT]

\* EmailService.client: the client to use, or the ValueError of line 44
client_property(self, e) ==
    IF self._client = NONE
    THEN IF e.OPENAI_API_KEY \in {NONE, ""}
         THEN [raised |-> TRUE, client |-> NONE]
         ELSE [raised |-> FALSE, client |-> CREATED_CLIENT]
    ELSE [raised |-> FALSE, client |-> self._client]

\* the keyword arguments of chat.completions.create
create_request(self, client, a) ==
    [client      |-> client,
     model       |-> self.model,
     messages    |->
        << [role |-> "system", content |-> get_base_system_prompt],
           [role |-> "user",
            content |-> get_email_rewrite_prompt(
                            a.email_text, a.target_audience, a.tone,
                            a.additional_instructions, a.focus_areas)] >>,
     temperature |-> self.temperature,
     max_tokens  |-> self.max_tokens]

\* The ties <<prompt_tokens, completion_tokens>> on which
\* (p/1000)*0.03 + (c/1000)*0.06 evaluates to a double above the midpoint
\* of two multiples of 0.0001, for counters in {0, 1, 2, 3, 50, 100}.
TIES_UP_4 == { <<1, 2>> }

INPUT_COST_PER_1K  == 30000
OUTPUT_COST_PER_1K == 60000

\* lines 103-110 and round(total_cost, 4), in micro-USD
rewrite_email_cost(usage_data) ==
    LET nano == usage_data.prompt_tokens * INPUT_COST_PER_1K
                  + usage_data.completion_tokens * OUTPUT_COST_PER_1K
        tie_up == <<usage_data.prompt_tokens, usage_data.completion_tokens>>
                      \in TIES_UP_4
    IN  100 * round_nearest(nano, 100000, tie_up)

\* C26 mutant: the total is taken from the prompt counter
rewrite_email_result_miscounted(self, resp) ==
    IF resp.choices = 0
    THEN [kind |-> "raised", type |-> "IndexError",
          message |-> "list index out of range"]
    ELSE IF resp.content \in {NoneText, << >>}
    THEN ValueError(MSG_EMPTY_RESPONSE)
    ELSE IF resp.usage = NoneRec
    THEN ValueError(MSG_NO_USAGE)
    ELSE [kind  |-> "returned",
          value |-> [content |-> strip(resp.content),
                     usage   |-> [total_tokens  |-> resp.usage.prompt_tokens,
                                  input_tokens  |-> resp.usage.prompt_tokens,
                                  output_tokens |-> resp.usage.completion_tokens,
                                  cost_usd      |-> rewrite_email_cost(resp.usage)],
                     model   |-> self.model]]

\* lines 94-121: from the completion response to what rewrite_email does
rewrite_email_result(self, resp) ==
    IF resp.choices = 0
    THEN [kind |-> "raised", type |-> "IndexError",
          message |-> "list index out of range"]
    ELSE IF resp.content \in {NoneText, << >>}
    THEN ValueError(MSG_EMPTY_RESPONSE)
    ELSE IF resp.usage = NoneRec
    THEN ValueError(MSG_NO_USAGE)
    ELSE [kind  |-> "returned",
          value |-> [content |-> strip(resp.content),
                     usage   |-> [total_tokens  |-> resp.usage.total_tokens,
                                  input_tokens  |-> resp.usage.prompt_tokens,
                                  output_tokens |-> resp.usage.completion_tokens,
                                  cost_usd      |-> rewrite_email_cost(resp.usage)],
                     model   |-> self.model]]

(***************************************************************************)
(* /rewrite-upload: the checks the handler makes before the rewrite        *)
(***************************************************************************)
ALLOWED_EXTENSIONS ==
    { << ".","t","x","t" >>, << ".","p","d","f" >>, << ".","d","o","c","x" >> }

MAX_SIZE_BYTES == 10 * 1024 * 1024

MIN_UPLOAD_TEXT_LEN == 10

\* Path(filename).suffix for a name without directories: from the last dot
\* on, unless that dot starts or ends the name
suffix(filename) ==
    LET dots == {i \in 1..Len(filename) : filename[i] = "."}
        last == CHOOSE i \in dots : \A j \in dots : j <= i
    IN  IF dots = {} THEN << >>
        ELSE IF 1 < last /\ last < Len(filename)
        THEN SubSeq(filename, last, Len(filename))
        ELSE << >>

validate_file_type(filename) == lower(suffix(filename)) \in ALLOWED_EXTENSIONS

validate_file_size(size) == size <= MAX_SIZE_BYTES

\* focus_areas.split(",")
RECURSIVE split_comma(_)
split_comma(s) ==
    LET commas == {i \in 1..Len(s) : s[i] = ","}
    IN  IF commas = {} THEN << s >>
        ELSE LET i == CHOOSE c \in commas : \A d \in commas : c <= d
             IN  << SubSeq(s, 1, i - 1) >> \o split_comma(SubSeq(s, i + 1, Len(s)))

\* [area.strip() for area in focus_areas.split(",")] if focus_areas else None
parse_focus_areas(focus_areas) ==
    IF focus_areas \in {NoneText, << >>} THEN NoneList
    ELSE LET parts == split_comma(focus_areas)
         IN  [i \in 1..Len(parts) |-> strip(parts[i])]

\* An uploaded file: its name, the number of bytes read from it, and the
\* text extract_text_from_file finds in those bytes (NoneText: it raises
\* ValueError).
MSG_EXTRACTION_FAILED == "extract_text_from_file: ValueError"

\* C30 mutant: the size of the content is checked before the extension
upload_checks_size_first(file) ==
    IF file.filename = << >>
    THEN "No filename provided"
    ELSE IF ~validate_file_size(file.size)
    THEN "File size exceeds maximum allowed size (10MB)"
    ELSE IF ~validate_file_type(file.filename)
    THEN "Unsupported file type"
    ELSE IF file.text = NoneText
    THEN MSG_EXTRACTION_FAILED
    ELSE IF file.text = << >> \/ Len(strip(file.text)) < MIN_UPLOAD_TEXT_LEN
    THEN "Extracted text is too short or empty"
    ELSE "ok"

\* lines 310-348: "ok", or the message of the error the checks end in
upload_checks(file) ==
    IF file.filename = << >>
    THEN "No filename provided"
    ELSE IF ~validate_file_type(file.filename)
    THEN "Unsupported file type"
    ELSE IF ~validate_file_size(file.size)
    THEN "File size exceeds maximum allowed size (10MB)"
    ELSE IF file.text = NoneText
    THEN MSG_EXTRACTION_FAILED
    ELSE IF file.text = << >> \/ Len(strip(file.text)) < MIN_UPLOAD_TEXT_LEN
    THEN "Extracted text is too short or empty"
    ELSE "ok"

ApiError(error_code, message) ==
    [kind |-> "error", error_code |-> error_code, message |-> message]

\* /rewrite, lines 234-271: the answer for the way rewrite_email ended
rewrite_email_endpoint_response(o) ==
    IF o.kind = "returned"
    THEN [kind            |-> "success",
          rewritten_email |-> o.value.content,
          tokens_used     |-> o.value.usage.total_tokens,
          cost_usd        |-> o.value.usage.cost_usd,
          model_used      |-> o.value.model]
    ELSE IF o.type = "OpenAIError"
    THEN ApiError("OPENAI_ERROR", o.message)
    ELSE ApiError("API_ERROR", o.message)

\* /rewrite-upload, lines 363-408
rewrite_email_upload_response(o) ==
    IF o.kind = "returned"
    THEN [kind            |-> "success",
          rewritten_email |-> o.value.content,
          tokens_used     |-> o.value.usage.total_tokens,
          cost_usd        |-> o.value.usage.cost_usd,
          model_used      |-> o.value.model]
    ELSE IF o.type = "ValueError"
    THEN ApiError("VALIDATION_ERROR", o.message)
    ELSE IF o.type = "OpenAIError"
    THEN ApiError("OPENAI_ERROR", o.message)
    ELSE ApiError("API_ERROR", o.message)

(***************************************************************************)
(* Text codecs: bytes are numbers 0..255, a decoded text is a sequence of  *)
(* code points                                                             *)
(***************************************************************************)
\* the code points str.strip() removes (str.isspace)
PY_WHITESPACE ==
    (9..13) \cup (28..32) \cup {133, 160, 5760} \cup (8192..8202)
        \cup {8232, 8233, 8239, 8287, 12288}

\* str.strip() of a decoded text
py_strip(text) ==
    LET keep == {i \in 1..Len(text) : text[i] \notin PY_WHITESPACE}
    IN  IF keep = {} THEN << >>
        ELSE SubSeq(text, CHOOSE i \in keep : \A j \in keep : i <= j,
                          CHOOSE i \in keep : \A j \in keep : j <= i)

Decoded(text) == [ok |-> TRUE, text |-> text]
DecodeError   == [ok |-> FALSE, text |-> << >>]

\* the number of bytes the UTF-8 sequence with this first byte has (0: none)
utf8_length(b) ==
    IF b < 128 THEN 1
    ELSE IF b \in 194..223 THEN 2
    ELSE IF b \in 224..239 THEN 3
    ELSE IF b \in 240..244 THEN 4
    ELSE 0

\* the length of the run of ASCII bytes a byte string begins with
ascii_run(bs) ==
    CHOOSE k \in 0..Len(bs) :
        /\ \A i \in 1..k : bs[i] < 128
        /\ k = Len(bs) \/ bs[k + 1] >= 128

\* bytes.decode('utf-8'): a run of ASCII bytes decodes to itself, any other
\* byte begins a sequence of two to four bytes
RECURSIVE utf8_decode(_)
utf8_decode(bs) ==
    IF bs = << >> THEN Decoded(<< >>)
    ELSE IF ascii_run(bs) > 0
    THEN LET run  == ascii_run(bs)
             rest == utf8_decode(SubSeq(bs, run + 1, Len(bs)))
         IN  IF rest.ok THEN Decoded(SubSeq(bs, 1, run) \o rest.text)
             ELSE DecodeError
    ELSE LET b == bs[1]
             n == utf8_length(b)
             wellformed ==
                 /\ n > 0
                 /\ Len(bs) >= n
                 /\ \A i \in 2..n : bs[i] \in 128..191
                 /\ (b = 224 => bs[2] >= 160)
                 /\ (b = 237 => bs[2] <= 159)
                 /\ (b = 240 => bs[2] >= 144)
                 /\ (b = 244 => bs[2] <= 143)
             cp == CASE n = 1 -> b
                    [] n = 2 -> (b - 192) * 64 + (bs[2] - 128)
                    [] n = 3 -> (b - 224) * 4096 + (bs[2] - 128) * 64
                                    + (bs[3] - 128)
                    [] n = 4 -> (b - 240) * 262144 + (bs[2] - 128) * 4096
                                    + (bs[3] - 128) * 64 + (bs[4] - 128)
         IN  IF ~wellformed THEN DecodeError
             ELSE LET rest == utf8_decode(SubSeq(bs, n + 1, Len(bs)))
                  IN  IF rest.ok THEN Decoded(<< cp >> \o rest.text)
                      ELSE DecodeError

\* str.encode('utf-8') of one code point
utf8_encode_char(c) ==
    IF c < 128 THEN << c >>
    ELSE IF c < 2048 THEN << 192 + (c \div 64), 128 + (c % 64) >>
    ELSE IF c < 65536
    THEN << 224 + (c \div 4096), 128 + ((c \div 64) % 64), 128 + (c % 64) >>
    ELSE << 240 + (c \div 262144), 128 + ((c \div 4096) % 64),
            128 + ((c \div 64) % 64), 128 + (c % 64) >>

\* str.encode('utf-8')
RECURSIVE utf8_encode(_)
utf8_encode(text) ==
    IF text = << >> THEN << >>
    ELSE utf8_encode_char(Head(text)) \o utf8_encode(Tail(text))

\* the 16-bit units of UTF-16 text, in the byte order given
RECURSIVE utf16_units(_, _)
utf16_units(bs, big_endian) ==
    IF bs = << >> THEN Decoded(<< >>)
    ELSE IF Len(bs) < 2 THEN DecodeError
    ELSE LET unit == IF big_endian THEN bs[1] * 256 + bs[2]
                     ELSE bs[2] * 256 + bs[1]
         IN  IF unit \in 55296..56319
             THEN IF Len(bs) < 4 THEN DecodeError
                  ELSE LET low == IF big_endian THEN bs[3] * 256 + bs[4]
                                  ELSE bs[4] * 256 + bs[3]
                           rest == utf16_units(SubSeq(bs, 5, Len(bs)), big_endian)
                       IN  IF low \notin 56320..57343 \/ ~rest.ok THEN DecodeError
                           ELSE Decoded(<< 65536 + (unit - 55296) * 1024
                                             + (low - 56320) >> \o rest.text)
             ELSE IF unit \in 56320..57343 THEN DecodeError
             ELSE LET rest == utf16_units(SubSeq(bs, 3, Len(bs)), big_endian)
                  IN  IF rest.ok THEN Decoded(<< unit >> \o rest.text)
                      ELSE DecodeError

\* bytes.decode('utf-16'): a byte order mark picks the byte order and is
\* dropped, without one the order is that of the machine (little endian)
utf16_decode(bs) ==
    IF Len(bs) >= 2 /\ bs[1] = 255 /\ bs[2] = 254
    THEN utf16_units(SubSeq(bs, 3, Len(bs)), FALSE)
    ELSE IF Len(bs) >= 2 /\ bs[1] = 254 /\ bs[2] = 255
    THEN utf16_units(SubSeq(bs, 3, Len(bs)), TRUE)
    ELSE utf16_units(bs, FALSE)

\* bytes.decode('latin-1'): every byte is the code point of its value
latin1_decode(bs) == Decoded(bs)

CP1252_UNDEFINED == {129, 141, 143, 144, 157}

cp1252_char(b) ==
    CASE b = 128 -> 8364 [] b = 130 -> 8218 [] b = 131 -> 402
      [] b = 132 -> 8222 [] b = 133 -> 8230 [] b = 134 -> 8224
      [] b = 135 -> 8225 [] b = 136 -> 710  [] b = 137 -> 8240
      [] b = 138 -> 352  [] b = 139 -> 8249 [] b = 140 -> 338
      [] b = 142 -> 381  [] b = 145 -> 8216 [] b = 146 -> 8217
      [] b = 147 -> 8220 [] b = 148 -> 8221 [] b = 149 -> 8226
      [] b = 150 -> 8211 [] b = 151 -> 8212 [] b = 152 -> 732
      [] b = 153 -> 8482 [] b = 154 -> 353  [] b = 155 -> 8250
      [] b = 156 -> 339  [] b = 158 -> 382  [] b = 159 -> 376
      [] OTHER -> b

\* bytes.decode('cp1252')
cp1252_decode(bs) ==
    IF \E i \in 1..Len(bs) : bs[i] \in CP1252_UNDEFINED THEN DecodeError
    ELSE Decoded([i \in 1..Len(bs) |-> cp1252_char(bs[i])])

\* content.decode(encoding)
decode(content, encoding) ==
    CASE encoding = "utf-8"   -> utf8_decode(content)
      [] encoding = "utf-16"  -> utf16_decode(content)
      [] encoding = "latin-1" -> latin1_decode(content)
      [] encoding = "cp1252"  -> cp1252_decode(content)

(***************************************************************************)
(* utils/file_handler.py: the extractors                                   *)
(*                                                                         *)
(* A file content is its bytes together with what the parsing libraries    *)
(* make of them: pdf is the outcome of PyPDF2.PdfReader, docx the outcome  *)
(* of docx.Document.  The result of an extractor records, besides the text *)
(* or the exception, whether the content was read, which library was       *)
(* invoked and which encoding the decoding stopped at.                     *)
(***************************************************************************)
ENCODINGS == << "utf-8", "utf-16", "latin-1", "cp1252" >>

MSG_PDF_PREFIX  == "Failed to process PDF file: "
MSG_DOCX_PREFIX == "Failed to process DOCX file: "

\* what PyPDF2.PdfReader and docx.Document raise on bytes that are not theirs
PdfReadError ==
    [kind |-> "raised", type |-> "PdfReadError", message |-> "EOF marker not found"]

BadZipFile ==
    [kind |-> "raised", type |-> "BadZipFile", message |-> "File is not a zip file"]

\* raise ValueError(message): the message is the sequence of its parts
ExtractionError(message, read, parser) ==
    [kind |-> "raised", type |-> "ValueError", message |-> message,
     text |-> << >>, read |-> read, parser |-> parser, encoding |-> NONE]

\* return text
Extracted(text, parser, encoding) ==
    [kind |-> "returned", type |-> NONE, message |-> << >>,
     text |-> text, read |-> TRUE, parser |-> parser, encoding |-> encoding]

\* C16 mutant: a page that fails ends the loop over the pages
RECURSIVE pdf_pages_text_abort(_)
pdf_pages_text_abort(pages) ==
    IF pages = << >> THEN << >>
    ELSE LET page == Head(pages)
         IN  IF ~page.ok THEN << >>
             ELSE (IF py_strip(page.text) # << >>
                   THEN page.text \o << 10 >>
                   ELSE << >>) \o pdf_pages_text_abort(Tail(pages))

\* lines 51-60: the text of the pages that extract and are not blank, each
\* followed by a newline
RECURSIVE pdf_pages_text(_)
pdf_pages_text(pages) ==
    IF pages = << >> THEN << >>
    ELSE LET page == Head(pages)
         IN  (IF page.ok /\ py_strip(page.text) # << >>
              THEN page.text \o << 10 >>
              ELSE << >>) \o pdf_pages_text(Tail(pages))

\* C17 mutant: the exception of the library leaves the extractor as it is
extract_text_from_pdf_unwrapped(file, PDF_AVAILABLE) ==
    IF ~PDF_AVAILABLE
    THEN ExtractionError(<< "PDF processing not available. Install PyPDF2: pip install PyPDF2" >>,
                         FALSE, NONE)
    ELSE IF Len(file.bytes) = 0
    THEN ExtractionError(<< MSG_PDF_PREFIX, "PDF file is empty" >>, TRUE, NONE)
    ELSE IF file.pdf.kind = "raised"
    THEN [ExtractionError(<< file.pdf.message >>, TRUE, "PyPDF2")
            EXCEPT !.type = file.pdf.type]
    ELSE IF Len(file.pdf.pages) = 0
    THEN ExtractionError(<< MSG_PDF_PREFIX, "PDF file has no pages" >>, TRUE, "PyPDF2")
    ELSE LET text == pdf_pages_text(file.pdf.pages)
         IN  IF py_strip(text) = << >>
             THEN ExtractionError(<< MSG_PDF_PREFIX, "No text could be extracted from the PDF" >>,
                                  TRUE, "PyPDF2")
             ELSE Extracted(py_strip(text), "PyPDF2", NONE)

\* extract_text_from_pdf, lines 33-67
extract_text_from_pdf(file, PDF_AVAILABLE) ==
    IF ~PDF_AVAILABLE
    THEN ExtractionError(<< "PDF processing not available. Install PyPDF2: pip install PyPDF2" >>,
                         FALSE, NONE)
    ELSE IF Len(file.bytes) = 0
    THEN ExtractionError(<< MSG_PDF_PREFIX, "PDF file is empty" >>, TRUE, NONE)
    ELSE IF file.pdf.kind = "raised"
    THEN ExtractionError(<< MSG_PDF_PREFIX, file.pdf.message >>, TRUE, "PyPDF2")
    ELSE IF Len(file.pdf.pages) = 0
    THEN ExtractionError(<< MSG_PDF_PREFIX, "PDF file has no pages" >>, TRUE, "PyPDF2")
    ELSE LET text == pdf_pages_text(file.pdf.pages)
         IN  IF py_strip(text) = << >>
             THEN ExtractionError(<< MSG_PDF_PREFIX, "No text could be extracted from the PDF" >>,
                                  TRUE, "PyPDF2")
             ELSE Extracted(py_strip(text), "PyPDF2", NONE)

\* lines 85-88: the stripped text of the paragraphs that are not blank
docx_text_parts(paragraphs) ==
    LET stripped == [i \in 1..Len(paragraphs) |-> py_strip(paragraphs[i])]
    IN  SelectSeq(stripped, LAMBDA part : part # << >>)

\* "\n".join(text_parts)
RECURSIVE join_newline(_)
join_newline(parts) ==
    IF parts = << >> THEN << >>
    ELSE IF Len(parts) = 1 THEN parts[1]
    ELSE parts[1] \o << 10 >> \o join_newline(Tail(parts))

\* C15 mutant: the empty content is handed to the library
extract_text_from_docx_parse_first(file, DOCX_AVAILABLE) ==
    IF ~DOCX_AVAILABLE
    THEN ExtractionError(<< "DOCX processing not available. Install python-docx: pip install python-docx" >>,
                         FALSE, NONE)
    ELSE IF file.docx.kind = "raised"
    THEN ExtractionError(<< MSG_DOCX_PREFIX, file.docx.message >>, TRUE, "docx")
    ELSE LET text_parts == docx_text_parts(file.docx.paragraphs)
         IN  IF text_parts = << >>
             THEN ExtractionError(<< MSG_DOCX_PREFIX, "No text content found in DOCX file" >>,
                                  TRUE, "docx")
             ELSE Extracted(py_strip(join_newline(text_parts)), "docx", NONE)

\* extract_text_from_docx, lines 70-96
extract_text_from_docx(file, DOCX_AVAILABLE) ==
    IF ~DOCX_AVAILABLE
    THEN ExtractionError(<< "DOCX processing not available. Install python-docx: pip install python-docx" >>,
                         FALSE, NONE)
    ELSE IF Len(file.bytes) = 0
    THEN ExtractionError(<< MSG_DOCX_PREFIX, "DOCX file is empty" >>, TRUE, NONE)
    ELSE IF file.docx.kind = "raised"
    THEN ExtractionError(<< MSG_DOCX_PREFIX, file.docx.message >>, TRUE, "docx")
    ELSE LET text_parts == docx_text_parts(file.docx.paragraphs)
         IN  IF text_parts = << >>
             THEN ExtractionError(<< MSG_DOCX_PREFIX, "No text content found in DOCX file" >>,
                                  TRUE, "docx")
             ELSE Extracted(py_strip(join_newline(text_parts)), "docx", NONE)

\* lines 117-122: the first encoding of the list, from position i on, that
\* decodes the content; the text stays "" when none does
RECURSIVE first_decoding(_, _, _)
first_decoding(content, encodings, i) ==
    IF i > Len(encodings) THEN [encoding |-> NONE, text |-> << >>]
    ELSE LET d == decode(content, encodings[i])
         IN  IF d.ok THEN [encoding |-> encodings[i], text |-> d.text]
             ELSE first_decoding(content, encodings, i + 1)

\* C14 mutant: UTF-16 is tried before UTF-8
extract_text_from_txt_utf16_first(file) ==
    IF Len(file.bytes) = 0
    THEN ExtractionError(<< "Text file is empty" >>, TRUE, NONE)
    ELSE LET d == first_decoding(file.bytes,
                                 << "utf-16", "utf-8", "latin-1", "cp1252" >>, 1)
         IN  IF d.text = << >>
             THEN [ExtractionError(<< "Could not decode text file with supported encodings" >>,
                                   TRUE, NONE) EXCEPT !.encoding = d.encoding]
             ELSE IF py_strip(d.text) = << >>
             THEN [ExtractionError(<< "Text file contains no readable content" >>,
                                   TRUE, NONE) EXCEPT !.encoding = d.encoding]
             ELSE Extracted(py_strip(d.text), NONE, d.encoding)

\* extract_text_from_txt, lines 99-141
extract_text_from_txt(file) ==
    IF Len(file.bytes) = 0
    THEN ExtractionError(<< "Text file is empty" >>, TRUE, NONE)
    ELSE LET d == first_decoding(file.bytes, ENCODINGS, 1)
         IN  IF d.text = << >>
             THEN [ExtractionError(<< "Could not decode text file with supported encodings" >>,
                                   TRUE, NONE) EXCEPT !.encoding = d.encoding]
             ELSE IF py_strip(d.text) = << >>
             THEN [ExtractionError(<< "Text file contains no readable content" >>,
                                   TRUE, NONE) EXCEPT !.encoding = d.encoding]
             ELSE Extracted(py_strip(d.text), NONE, d.encoding)

EXT_TXT  == << ".","t","x","t" >>
EXT_PDF  == << ".","p","d","f" >>
EXT_DOCX == << ".","d","o","c","x" >>

\* what extract_text_from_file gives: the outcome of the extractor, the
\* extractor it went to and the extension it went by
Dispatched(extractor, file_extension, e) ==
    [extractor |-> extractor, file_extension |-> file_extension,
     kind |-> e.kind, type |-> e.type, message |-> e.message, text |-> e.text,
     read |-> e.read, parser |-> e.parser, encoding |-> e.encoding]

\* C13 mutant: a content that PyPDF2 can read goes to the PDF extractor
\* whatever the file is called
extract_text_from_file_sniffing(file_content, filename, PDF_AVAILABLE, DOCX_AVAILABLE) ==
    LET file_extension == lower(suffix(filename))
    IN  IF filename = << >>
        THEN Dispatched(NONE, file_extension,
                        ExtractionError(<< "Filename is required" >>, FALSE, NONE))
        ELSE IF ~validate_file_type(filename)
        THEN Dispatched(NONE, file_extension,
                        ExtractionError(<< "Unsupported file type: {file_extension}. Supported types: .txt, .pdf, .docx" >>,
                                        FALSE, NONE))
        ELSE IF file_extension = EXT_PDF \/ file_content.pdf.kind = "document"
        THEN Dispatched("pdf", file_extension,
                        extract_text_from_pdf(file_content, PDF_AVAILABLE))
        ELSE IF file_extension = EXT_DOCX
        THEN Dispatched("docx", file_extension,
                        extract_text_from_docx(file_content, DOCX_AVAILABLE))
        ELSE Dispatched("txt", file_extension, extract_text_from_txt(file_content))

\* extract_text_from_file, lines 163-205
extract_text_from_file(file_content, filename, PDF_AVAILABLE, DOCX_AVAILABLE) ==
    LET file_extension == lower(suffix(filename))
    IN  IF filename = << >>
        THEN Dispatched(NONE, file_extension,
                        ExtractionError(<< "Filename is required" >>, FALSE, NONE))
        ELSE IF ~validate_file_type(filename)
        THEN Dispatched(NONE, file_extension,
                        ExtractionError(<< "Unsupported file type: {file_extension}. Supported types: .txt, .pdf, .docx" >>,
                                        FALSE, NONE))
        ELSE IF file_extension = EXT_PDF
        THEN Dispatched("pdf", file_extension,
                        extract_text_from_pdf(file_content, PDF_AVAILABLE))
        ELSE IF file_extension = EXT_DOCX
        THEN Dispatched("docx", file_extension,
                        extract_text_from_docx(file_content, DOCX_AVAILABLE))
        ELSE Dispatched("txt", file_extension, extract_text_from_txt(file_content))

(***************************************************************************)
(* EmailRewriteRequest: the field constraints and the field validators     *)
(***************************************************************************)
\* the characters of [\x00-\x1F\x7F] that the texts of the model are written with
CONTROL_CHARS == {"\t", "\n"}

\* re.sub(r'[\x00-\x1F\x7F]', '', v)
scrub_control(v) == SelectSeq(v, LAMBDA c : c \notin CONTROL_CHARS)

\* len(v.split()): the maximal runs of characters that are not whitespace
word_count(v) ==
    Cardinality({i \in 1..Len(v) :
                    /\ v[i] \notin WHITESPACE
                    /\ (i = 1 \/ v[i - 1] \in WHITESPACE)})

EMAIL_TEXT_MIN_LENGTH      == 30
EMAIL_TEXT_MAX_LENGTH      == 5000
TARGET_AUDIENCE_MIN_LENGTH == 10
TARGET_AUDIENCE_MAX_LENGTH == 2000
EMAIL_TEXT_MIN_WORDS       == 10
TARGET_AUDIENCE_MIN_WORDS  == 2

\* Field(min_length=..., max_length=...) of a str field: the length of the
\* string as it was sent
field_constraints(v, min_length, max_length) ==
    IF Len(v) < min_length
    THEN [kind |-> "error", type |-> "string_too_short", limit |-> min_length]
    ELSE IF Len(v) > max_length
    THEN [kind |-> "error", type |-> "string_too_long", limit |-> max_length]
    ELSE [kind |-> "value", value |-> v]

\* @field_validator('email_text')
validate_email_text(v) ==
    LET s == strip(scrub_control(v))
        n == word_count(s)
    IN  IF n < EMAIL_TEXT_MIN_WORDS
        THEN [kind |-> "error", type |-> "value_error",
              message |-> "Email text must contain at least 10 words",
              found |-> n, minimum |-> EMAIL_TEXT_MIN_WORDS]
        ELSE [kind |-> "value", value |-> s]

\* @field_validator('target_audience')
validate_target_audience(v) ==
    LET s == strip(scrub_control(v))
        n == word_count(s)
    IN  IF n < TARGET_AUDIENCE_MIN_WORDS
        THEN [kind |-> "error", type |-> "value_error",
              message |-> "Target audience must contain at least 2 words",
              found |-> n, minimum |-> TARGET_AUDIENCE_MIN_WORDS]
        ELSE [kind |-> "value", value |-> s]

\* a field validator runs after the constraints of its field, and only on a
\* value that met them
validated_email_text(v) ==
    LET c == field_constraints(v, EMAIL_TEXT_MIN_LENGTH, EMAIL_TEXT_MAX_LENGTH)
    IN  IF c.kind = "error" THEN c ELSE validate_email_text(c.value)

validated_target_audience(v) ==
    LET c == field_constraints(v, TARGET_AUDIENCE_MIN_LENGTH, TARGET_AUDIENCE_MAX_LENGTH)
    IN  IF c.kind = "error" THEN c ELSE validate_target_audience(c.value)

\* EmailRewriteRequest(**body): every field is validated, the model is built
\* when none of them failed
EmailRewriteRequest(body) ==
    LET e == validated_email_text(body.email_text)
        t == validated_target_audience(body.target_audience)
    IN  [valid           |-> e.kind = "value" /\ t.kind = "value",
         email_text      |-> e,
         target_audience |-> t]

(***************************************************************************)
(* Inputs of the service and of the handlers                               *)
(***************************************************************************)
\* ten words, 39 characters
EMAIL_TEXT ==
    << "h","e","y"," ","h","e","y"," ","h","e","y"," ","h","e","y"," ",
       "h","e","y"," ","h","e","y"," ","h","e","y"," ","h","e","y"," ",
       "h","e","y"," ","h","e","y" >>

AUDIENCE == << "h","i","r","i","n","g"," ","m","a","n","a","g","e","r" >>

RewriteArgs ==
    { [kind |-> "args", email_text |-> EMAIL_TEXT, target_audience |-> AUDIENCE,
       tone |-> TONE_PROFESSIONAL, focus_areas |-> NoneList,
       additional_instructions |-> NoneText],
      [kind |-> "args", email_text |-> EMAIL_TEXT, target_audience |-> AUDIENCE,
       tone |-> TONE_CASUAL, focus_areas |-> << << "b","r","e","v","i","t","y" >> >>,
       additional_instructions |-> << "b","e"," ","k","i","n","d" >>] }

\* the bodies sent to /rewrite: the texts as they are, the texts with control
\* characters around them, and the two-word text
RewriteBodies ==
    { [a EXCEPT !.email_text = t] :
        a \in RewriteArgs,
        t \in { EMAIL_TEXT, << "\t" >> \o EMAIL_TEXT \o << "\n" >>,
                << "s","h","o","r","t"," ","t","e","x","t" >> } }

UploadForms ==
    { [target_audience |-> AUDIENCE, tone |-> TONE_PROFESSIONAL,
       focus_areas |-> << "c","v",","," ","j","o","b" >>,
       additional_instructions |-> NoneText] }

FILE_TEXT  == << "D","e","a","r"," ","t","e","a","m","," >>
SHORT_TEXT == << "h","i" >>

UploadFiles ==
    { [filename |-> << >>,                        size |-> MAX_SIZE_BYTES + 1, text |-> SHORT_TEXT],
      [filename |-> << "a",".","e","x","e" >>,     size |-> MAX_SIZE_BYTES + 1, text |-> SHORT_TEXT],
      [filename |-> << "a",".","t","x","t" >>,     size |-> MAX_SIZE_BYTES + 1, text |-> SHORT_TEXT],
      [filename |-> << "a",".","t","x","t" >>,     size |-> MAX_SIZE_BYTES,     text |-> FILE_TEXT],
      [filename |-> << "a",".","p","d","f" >>,     size |-> MAX_SIZE_BYTES + 1, text |-> NoneText],
      [filename |-> << "a",".","p","d","f" >>,     size |-> 0,        text |-> NoneText],
      [filename |-> << "a",".","T","X","T" >>,     size |-> 2,        text |-> SHORT_TEXT],
      [filename |-> << "a",".","d","o","c","x" >>, size |-> 10,       text |-> FILE_TEXT] }

ContentTexts == UNION { [1..n -> {" ", "a"}] : n \in 0..MaxContentLen }

UsageTokens == (0..MaxUsageTok) \cup {50, 100}

\* response.usage: absent, or the three counters the completion reports
Usages ==
    { NoneRec } \cup
    { [kind |-> "usage", prompt_tokens |-> p, completion_tokens |-> c,
       total_tokens |-> p + c] : p \in UsageTokens, c \in UsageTokens }

\* what chat.completions.create can return
Responses ==
    { [kind |-> "completion", choices |-> 0, content |-> NoneText, usage |-> NoneRec] }
    \cup
    { [kind |-> "completion", choices |-> 1, content |-> c, usage |-> u] :
        c \in ContentTexts \cup {NoneText}, u \in Usages }

(***************************************************************************)
(* The service and the handlers, step by step                              *)
(***************************************************************************)
NewInvocation ==
    /\ completion_calls' = << >>
    /\ response' = NoneRec
    /\ outcome' = NoneRec
    /\ http' = NoneRec

\* a caller constructs the service, with or without a client of its own
EmailService_init(client) ==
    /\ pc = "idle"
    /\ svc.id < MaxInstances
    /\ svc' = EmailService(env, svc.id + 1, "caller", client)
    /\ UNCHANGED <<pricing_vars, lib_vars, env, pc, entry, args, completion_calls,
                   response, outcome, http, monitor_vars>>

\* the caller invokes rewrite_email on the service it constructed
call_rewrite_email(a) ==
    /\ pc = "idle"
    /\ svc.scope = "caller"
    /\ pc' = "rewrite_email"
    /\ entry' = "caller"
    /\ args' = a
    /\ NewInvocation
    /\ UNCHANGED <<pricing_vars, lib_vars, env, svc, monitor_vars>>

\* POST /rewrite: Depends(get_email_service), the body is parsed into an
\* EmailRewriteRequest, and the handler runs when the request is valid
rewrite_email_endpoint(body) ==
    /\ pc = "idle"
    /\ svc.id < MaxInstances
    /\ svc' = EmailService(env, svc.id + 1, "request", NONE)
    /\ entry' = "/rewrite"
    /\ completion_calls' = << >>
    /\ response' = NoneRec
    /\ outcome' = NoneRec
    /\ LET request == EmailRewriteRequest(body)
       IN  IF request.valid
           THEN /\ pc' = "rewrite_email"
                /\ args' = [body EXCEPT
                               !.email_text = request.email_text.value,
                               !.target_audience = request.target_audience.value]
                /\ http' = NoneRec
           ELSE /\ pc' = "idle"
                /\ args' = NoneRec
                /\ http' = ApiError("REQUEST_VALIDATION", "422 Unprocessable Entity")
    /\ UNCHANGED <<pricing_vars, lib_vars, env, monitor_vars>>

\* POST /rewrite-upload up to the call of the service
rewrite_email_upload(file, form) ==
    /\ pc = "idle"
    /\ svc.id < MaxInstances
    /\ svc' = EmailService(env, svc.id + 1, "request", NONE)
    /\ entry' = "/rewrite-upload"
    /\ completion_calls' = << >>
    /\ response' = NoneRec
    /\ outcome' = NoneRec
    /\ LET checked == upload_checks(file)
       IN  IF checked = "ok"
           THEN /\ pc' = "rewrite_email"
                /\ args' = [kind |-> "args",
                            email_text |-> file.text,
                            target_audience |-> form.target_audience,
                            tone |-> form.tone,
                            focus_areas |-> parse_focus_areas(form.focus_areas),
                            additional_instructions |-> form.additional_instructions]
                /\ http' = NoneRec
           ELSE /\ pc' = "idle"
                /\ args' = NoneRec
                /\ http' = ApiError("VALIDATION_ERROR", checked)
    /\ UNCHANGED <<pricing_vars, lib_vars, env, monitor_vars>>

\* rewrite_email, lines 73-92: the prompts, self.client, the create call
rewrite_email_call ==
    /\ pc = "rewrite_email"
    /\ LET c == client_property(svc, env)
       IN  IF c.raised
           THEN /\ outcome' = ValueError(MSG_NO_API_KEY)
                /\ pc' = "finished"
                /\ UNCHANGED <<svc, completion_calls>>
           ELSE /\ svc' = [svc EXCEPT !._client = c.client]
                /\ completion_calls' =
                       Append(completion_calls, create_request(svc, c.client, args))
                /\ pc' = "awaiting"
                /\ UNCHANGED outcome
    /\ UNCHANGED <<pricing_vars, lib_vars, env, entry, args, response, http, monitor_vars>>

\* the awaited call returns; rewrite_email, lines 94-121
completion_returns(resp) ==
    /\ pc = "awaiting"
    /\ response' = resp
    /\ outcome' = rewrite_email_result(svc, resp)
    /\ pc' = "finished"
    /\ UNCHANGED <<pricing_vars, lib_vars, env, svc, entry, args, completion_calls, http, monitor_vars>>

\* C8 mutant: a failed call is issued once more
completion_raises_retry ==
    /\ pc = "awaiting"
    /\ response' = [kind |-> "error"]
    /\ IF Len(completion_calls) < 2
       THEN /\ completion_calls' = Append(completion_calls, completion_calls[1])
            /\ UNCHANGED <<pc, outcome>>
       ELSE /\ outcome' = [kind |-> "raised", type |-> "OpenAIError",
                           message |-> "completion failed"]
            /\ pc' = "finished"
            /\ UNCHANGED completion_calls
    /\ UNCHANGED <<pricing_vars, lib_vars, env, svc, entry, args, http, monitor_vars>>

\* the awaited call raises: the exception leaves rewrite_email as it is
completion_raises ==
    /\ pc = "awaiting"
    /\ response' = [kind |-> "error"]
    /\ outcome' = [kind |-> "raised", type |-> "OpenAIError",
                   message |-> "completion failed"]
    /\ pc' = "finished"
    /\ UNCHANGED <<pricing_vars, lib_vars, env, svc, entry, args, completion_calls, monitor_vars>>
    /\ UNCHANGED http

\* the caller gets the dict or the exception
call_rewrite_email_done ==
    /\ pc = "finished"
    /\ entry = "caller"
    /\ pc' = "idle"
    /\ UNCHANGED <<pricing_vars, lib_vars, env, svc, entry, args, completion_calls,
                   response, outcome, http, monitor_vars>>

\* /rewrite answers
rewrite_email_endpoint_done ==
    /\ pc = "finished"
    /\ entry = "/rewrite"
    /\ http' = rewrite_email_endpoint_response(outcome)
    /\ pc' = "idle"
    /\ UNCHANGED <<pricing_vars, lib_vars, env, svc, entry, args, completion_calls,
                   response, outcome, monitor_vars>>

\* /rewrite-upload answers
rewrite_email_upload_done ==
    /\ pc = "finished"
    /\ entry = "/rewrite-upload"
    /\ http' = rewrite_email_upload_response(outcome)
    /\ pc' = "idle"
    /\ UNCHANGED <<pricing_vars, lib_vars, env, svc, entry, args, completion_calls,
                   response, outcome, monitor_vars>>

ServiceIdle ==
    /\ svc = NoService
    /\ pc = "idle"
    /\ entry = NONE
    /\ args = NoneRec
    /\ completion_calls = << >>
    /\ response = NoneRec
    /\ outcome = NoneRec
    /\ http = NoneRec

(***************************************************************************)
(* utils/input_folder_monitor.py: InputFolderMonitor                       *)
(*                                                                         *)
(* A file is [id, name, content]: id counts the arrivals and orders the    *)
(* files by modification time.  The folder holds the files of the input    *)
(* directory, of processed/ and of errors/, each under the name it has     *)
(* there, and the output files with their contents.  written is the list   *)
(* of the save_output_file calls that wrote a file.  clock counts the scans:*)
(* the loop sleeps check_interval (30 s) between two of them, so the       *)
(* second-resolution timestamps of two scans differ.                       *)
(***************************************************************************)
Entry(file, stored_as) == [file |-> file, stored_as |-> stored_as]

\* datetime.now().strftime('%Y%m%d_%H%M%S')
timestamp(fs) == ToString(fs.clock)

\* error_dir / f"error_{timestamp}_{file_path.name}"
error_name(fs, name) == << "error_", timestamp(fs), "_" >> \o name

\* Path(name).stem: the name without its suffix
stem(name) == SubSeq(name, 1, Len(name) - Len(suffix(name)))

\* save_output_file, lines 262-264, called with the prefix processed_{stem}
output_name(fs, name) ==
    << "processed_" >> \o stem(name) \o << "_", timestamp(fs), ".txt" >>

EmptyFolder == [arrivals |-> 0, faults |-> 0, clock |-> 0,
                input |-> {}, processed |-> {}, errors |-> {}, output |-> {},
                written |-> << >>]

\* an output file and what was written into it
Output(file, stored_as, content) ==
    [file |-> file, stored_as |-> stored_as, content |-> content]

\* process_file, lines 72-81: the placeholder that stands for the rewrite
DEFAULT_AUDIENCE == "professional audience"

processed_content(file_data, target_audience) ==
    [kind |-> "placeholder", original_email |-> file_data,
     processed_for |-> target_audience]

NoContent == [bytes |-> << >>, pdf |-> PdfReadError, docx |-> BadZipFile]

\* no file in hand
NoFile == [id |-> 0, name |-> << >>, content |-> NoContent]

\* no /process-input-folder request yet
BatchIdle ==
    [pc |-> "idle", requests |-> 0, files |-> << >>, next |-> 1,
     source |-> NoFile, results |-> << >>, content |-> NoneRec,
     calls |-> << >>, response |-> NoneRec]

NoResult == [kind |-> NONE]

\* InputFolderMonitor.__init__, and a loop that has not scanned yet
MonitorIdle ==
    /\ folder = EmptyFolder
    /\ monitor = [processed_files |-> {}, pc |-> "sleep", new_files |-> << >>,
                  current |-> NoneText, last |-> NoResult, log |-> {},
                  source |-> NoFile, file_data |-> << >>]
    /\ batch = BatchIdle

\* the files of a set in the order of their modification times
RECURSIVE sorted_by_mtime(_)
sorted_by_mtime(files) ==
    IF files = {} THEN << >>
    ELSE LET first == CHOOSE f \in files : \A g \in files : f.id <= g.id
         IN  << first >> \o sorted_by_mtime(files \ {first})

\* scan_for_new_files, lines 36-53: the paths of the supported files that
\* are not in processed_files, oldest first
scan_for_new_files(fs, mon) ==
    LET new_files == {f \in fs.input :
                         /\ validate_file_type(f.name)
                         /\ f.name \notin mon.processed_files}
        sorted == sorted_by_mtime(new_files)
    IN  [i \in 1..Len(sorted) |-> sorted[i].name]

\* file_path.rename(target): the file leaves the input directory and is in
\* the target directory under the new name, in place of what had that name
rename(fs, file, target, stored_as) ==
    LET kept == {e \in fs[target] : e.stored_as # stored_as}
    IN  [fs EXCEPT !.input = fs.input \ {file},
                   ![target] = kept \cup {Entry(file, stored_as)}]

\* the loop goes on with the files left of this scan, or sleeps
next_file(mon) ==
    [mon EXCEPT !.new_files = Tail(mon.new_files),
                !.pc = IF Tail(mon.new_files) = << >> THEN "sleep" ELSE "loop",
                !.current = NoneText, !.source = NoFile, !.file_data = << >>]

\* process_file returns the dict
returns(mon, file, status) ==
    LET result == [kind |-> "returned", status |-> status, file |-> file]
    IN  [next_file(mon) EXCEPT !.last = result, !.log = mon.log \cup {result}]

\* an exception leaves process_file: monitor_loop logs it and sleeps, the
\* files left of this scan wait for the next one
raises(mon, file) ==
    [mon EXCEPT !.new_files = << >>, !.pc = "sleep", !.current = NoneText,
                !.source = NoFile, !.file_data = << >>,
                !.last = [kind |-> "raised", status |-> "error", file |-> file]]

\* a path of the input directory, and the file it names
exists(fs, name) == \E f \in fs.input : f.name = name

file_at(fs, name) ==
    IF exists(fs, name) THEN CHOOSE f \in fs.input : f.name = name
    ELSE [id |-> 0, name |-> name, content |-> NoContent]

\* utils/file_handler.py process_input_folder_file, lines 218-228; both
\* libraries are installed where the monitor runs
process_input_folder_file(fs, name) ==
    IF ~exists(fs, name)
    THEN ExtractionError(<< "File not found: " >> \o name, FALSE, NONE)
    ELSE IF ~validate_file_type(name)
    THEN ExtractionError(<< "Unsupported file type: " >> \o suffix(name), FALSE, NONE)
    ELSE extract_text_from_file(file_at(fs, name).content, name, TRUE, TRUE)

\* utils/file_handler.py save_output_file, lines 262-269: the file of that
\* name holds the content, in place of what it held
save_output_file(fs, file, content, by) ==
    LET stored_as == output_name(fs, file.name)
        kept      == {e \in fs.output : e.stored_as # stored_as}
    IN  [fs EXCEPT !.output = kept \cup {Output(file, stored_as, content)},
                   !.written = Append(@, [file |-> file, by |-> by])]

\* C20 mutant: the failed file is reported and left where it is
process_file_except_no_move(fs, mon, file, renamed) ==
    [folder |-> fs, monitor |-> returns(mon, file, "error")]

\* process_file, lines 113-128: the except block moves the file to errors/
\* under a timestamped name; the rename is not guarded
process_file_except(fs, mon, file, renamed) ==
    IF renamed
    THEN [folder  |-> rename(fs, file, "errors", error_name(fs, file.name)),
          monitor |-> returns(mon, file, "error")]
    ELSE [folder  |-> fs, monitor |-> raises(mon, file)]

\* process_file, lines 84-111, after the text was extracted: the output is
\* saved, the path is marked, the file moves to processed/.  saved, moved
\* and renamed tell which of the three file operations the system carries
\* out; one that fails raises OSError
process_file_save(fs, mon, file, saved, moved, renamed) ==
    LET content == processed_content(mon.file_data, DEFAULT_AUDIENCE)
        written == save_output_file(fs, mon.source, content, "loop")
        marked  == [mon EXCEPT !.processed_files = @ \cup {file.name}]
    IN  IF ~saved THEN process_file_except(fs, mon, file, renamed)
        ELSE IF ~moved THEN process_file_except(written, marked, file, renamed)
        ELSE [folder  |-> rename(written, file, "processed", file.name),
              monitor |-> returns(marked, file, "success")]

(***************************************************************************)
(* api/app.py: POST /process-input-folder                                  *)
(***************************************************************************)
\* utils/file_handler.py scan_input_folder, lines 246-251: the supported
\* files of the input directory, oldest first
scan_input_folder(fs) ==
    LET supported == {f \in fs.input : validate_file_type(f.name)}
        sorted == sorted_by_mtime(supported)
    IN  [i \in 1..Len(sorted) |-> sorted[i].name]

\* open(file_path, 'r', encoding='utf-8').read(), lines 472-473
read_text(fs, name) ==
    IF ~exists(fs, name)
    THEN [kind |-> "raised", type |-> "FileNotFoundError", text |-> << >>]
    ELSE LET d == utf8_decode(file_at(fs, name).content.bytes)
         IN  IF d.ok THEN [kind |-> "returned", type |-> NONE, text |-> d.text]
             ELSE [kind |-> "raised", type |-> "UnicodeDecodeError", text |-> << >>]

MIN_CONTENT_LENGTH == 100

\* one dict of results: the file name, the status and, for an error, the
\* exception; source is the arrival number of the file the path named
Result(file, status, error, source) ==
    [file |-> file, status |-> status, error |-> error, source |-> source.id]

count(results, status) ==
    Cardinality({i \in 1..Len(results) : results[i].status = status})

\* lines 460-466 and 513-520: the answer of the request
NoFilesResponse ==
    [status |-> "success", message |-> "No files found in input folder",
     processed |-> 0, scanned |-> << >>]

BatchResponse(files, results) ==
    [status |-> "success", message |-> NONE,
     processed |-> count(results, "success"),
     failed    |-> count(results, "error"),
     skipped   |-> count(results, "skipped"),
     results   |-> results, scanned |-> files]

\* C23 mutant: a file that is too short is passed over without a record
RECURSIVE files_loop_silent_skip(_, _)
files_loop_silent_skip(fs, b) ==
    IF b.next > Len(b.files)
    THEN [b EXCEPT !.pc = "idle", !.response = BatchResponse(b.files, b.results)]
    ELSE LET name   == b.files[b.next]
             source == file_at(fs, name)
             read   == read_text(fs, name)
         IN  IF read.kind = "raised"
             THEN files_loop_silent_skip(fs, [b EXCEPT
                      !.next = @ + 1,
                      !.results = Append(@, Result(name, "error", read.type, source))])
             ELSE IF Len(read.text) < MIN_CONTENT_LENGTH
             THEN files_loop_silent_skip(fs, [b EXCEPT !.next = @ + 1])
             ELSE [b EXCEPT !.pc = "rewriting", !.source = source,
                            !.calls = Append(@, Result(name, "called", NONE, source))]

\* lines 469-492 and 513-520: the for loop from the file at b.next on, up to
\* the await of service.rewrite_email or to the answer
RECURSIVE files_loop(_, _)
files_loop(fs, b) ==
    IF b.next > Len(b.files)
    THEN [b EXCEPT !.pc = "idle", !.response = BatchResponse(b.files, b.results)]
    ELSE LET name   == b.files[b.next]
             source == file_at(fs, name)
             read   == read_text(fs, name)
         IN  IF read.kind = "raised"
             THEN files_loop(fs, [b EXCEPT
                      !.next = @ + 1,
                      !.results = Append(@, Result(name, "error", read.type, source))])
             ELSE IF Len(read.text) < MIN_CONTENT_LENGTH
             THEN files_loop(fs, [b EXCEPT
                      !.next = @ + 1,
                      !.results = Append(@, Result(name, "skipped", NONE, source))])
             ELSE [b EXCEPT !.pc = "rewriting", !.source = source,
                            !.calls = Append(@, Result(name, "called", NONE, source))]

\* lines 456-467: the request arrives, the folder is scanned
process_input_folder_endpoint(fs, b) ==
    LET files == scan_input_folder(fs)
        begun == [b EXCEPT !.requests = @ + 1, !.files = files, !.next = 1,
                           !.results = << >>, !.calls = << >>, !.source = NoFile,
                           !.content = NoneRec, !.response = NoneRec]
    IN  IF files = << >>
        THEN [begun EXCEPT !.response = NoFilesResponse]
        ELSE files_loop(fs, begun)

\* lines 507-512: the except block of one file
file_failed(fs, b, error) ==
    LET name == b.files[b.next]
    IN  files_loop(fs, [b EXCEPT
            !.next = @ + 1, !.content = NoneRec, !.source = NoFile,
            !.results = Append(@, Result(name, "error", error, b.source))])

\* lines 485-489: service.rewrite_email comes back
rewrite_email_returns(fs, b, result) ==
    IF result.kind = "raised" THEN file_failed(fs, b, result.type)
    ELSE [b EXCEPT !.pc = "saving",
                   !.content = [kind |-> "rewritten", content |-> result.content]]

\* lines 492-505: the output is saved and the file moves to processed/
save_and_move(fs, b, saved, moved) ==
    LET name    == b.files[b.next]
        file    == file_at(fs, name)
        written == save_output_file(fs, b.source, b.content, "endpoint")
    IN  IF ~saved THEN [folder |-> fs, batch |-> file_failed(fs, b, "OSError")]
        ELSE IF ~moved
        THEN [folder |-> written,
              batch  |-> file_failed(written, b,
                             IF exists(fs, name) THEN "OSError"
                             ELSE "FileNotFoundError")]
        ELSE LET moved_fs == rename(written, file, "processed", name)
             IN  [folder |-> moved_fs,
                  batch  |-> files_loop(moved_fs, [b EXCEPT
                                 !.next = @ + 1, !.content = NoneRec,
                                 !.source = NoFile,
                                 !.results = Append(@, Result(name, "success", NONE, file))])]

\* no call of the validation, extraction or prompt functions yet
LibIdle ==
    /\ validation_call = [fn |-> NONE]
    /\ extraction_call = [fn |-> NONE]
    /\ prompt_call = [fn |-> NONE]

Init ==
    /\ pricing_config = PRICING_CONFIG
    /\ pricing_call = [fn |-> NONE]
    /\ env \in [OPENAI_API_KEY : {NONE, "", "sk-test"},
                MODEL_NAME     : {NoneText, K_GPT_4O}]
    /\ ServiceIdle
    /\ LibIdle
    /\ MonitorIdle

Next ==
    \/ \E client \in {NONE, INJECTED_CLIENT} : EmailService_init(client)
    \/ \E a \in RewriteArgs : call_rewrite_email(a)
    \/ \E body \in RewriteBodies : rewrite_email_endpoint(body)
    \/ \E file \in UploadFiles, form \in UploadForms : rewrite_email_upload(file, form)
    \/ rewrite_email_call
    \/ \E resp \in Responses : completion_returns(resp)
    \/ completion_raises
    \/ call_rewrite_email_done
    \/ rewrite_email_endpoint_done
    \/ rewrite_email_upload_done

Spec == Init /\ [][Next]_vars

(***************************************************************************)
(* Inputs of the pricing functions                                         *)
(***************************************************************************)
RegistryKeys == {PRICING_CONFIG[i].key : i \in 1..Len(PRICING_CONFIG)}

UnknownNames ==
    { << >>, << "g","p","t" >>, << "g","p","t","-","5" >>,
      << "c","l","a","u","d","e" >> }

DateSuffixes ==
    { << "-","0","6","1","3" >>, << "-","2","0","2","4","-","0","7","-","1","8" >> }

Spaces(n) == [i \in 1..n |-> " "]

\* a base name, with or without a date suffix, in lower or upper case,
\* with up to MaxPad blanks on either side
ModelNames ==
    { Spaces(l) \o cased \o Spaces(r) :
        l \in 0..MaxPad, r \in 0..MaxPad,
        cased \in UNION { {base \o suf, upper(base \o suf)} :
                            base \in RegistryKeys \cup UnknownNames,
                            suf  \in DateSuffixes \cup {<< >>} } }

CostTokens == (-1..MaxTok) \cup {-50, 50, 100}

\* the model names calculate_cost is called with
CostModels ==
    RegistryKeys \cup
    { K_GPT_4O_MINI \o << "-","0","6","1","3" >>, << "c","l","a","u","d","e" >> }

(***************************************************************************)
(* Operations of the pricing module                                        *)
(***************************************************************************)
GetModelPricing(model_name) ==
    /\ pricing_call' = [fn     |-> "get_model_pricing",
                        name   |-> model_name,
                        result |-> get_model_pricing(pricing_config, model_name)]
    /\ UNCHANGED <<pricing_config, service_vars, lib_vars, monitor_vars>>

CalculateCost(input_tokens, output_tokens, model_name) ==
    LET r == calculate_cost(pricing_config, input_tokens, output_tokens, model_name)
    IN  /\ pricing_call' = [fn            |-> "calculate_cost",
                            input_tokens  |-> input_tokens,
                            output_tokens |-> output_tokens,
                            model_name    |-> model_name,
                            raised        |-> r.raised,
                            value         |-> r.value]
        /\ UNCHANGED <<pricing_config, service_vars, lib_vars, monitor_vars>>

InitPricing ==
    /\ pricing_config = PRICING_CONFIG
    /\ pricing_call = [fn |-> NONE]
    /\ env = [OPENAI_API_KEY |-> NONE, MODEL_NAME |-> NoneText]
    /\ ServiceIdle
    /\ LibIdle
    /\ MonitorIdle

NextPricing ==
    \/ \E n \in ModelNames : GetModelPricing(n)
    \/ \E a \in CostTokens, b \in CostTokens, m \in CostModels :
           CalculateCost(a, b, m)

SpecPricing == InitPricing /\ [][NextPricing]_vars

(***************************************************************************)
(* Request bodies and their validation                                     *)
(***************************************************************************)
\* the most words a text of a request body is made of
MaxWords == 11

MaxAudienceWords == 3

\* n times the word, the separator between two of them
RECURSIVE repeat_words(_, _, _)
repeat_words(word, sep, n) ==
    IF n = 0 THEN << >>
    ELSE IF n = 1 THEN word
    ELSE word \o sep \o repeat_words(word, sep, n - 1)

SHORT_TEXT_SCENARIO == << "s","h","o","r","t"," ","t","e","x","t" >>

BodyEmailTexts ==
    { SHORT_TEXT_SCENARIO } \cup
    { repeat_words(w, sep, n) :
        w \in { << "a" >>, << "h","e","y" >> },
        sep \in { << " " >>, << "\n" >> },
        n \in 0..MaxWords }

BodyAudiences ==
    { << "h","r"," ","t","e","a","m","\n" >> } \cup
    { repeat_words(w, << " " >>, n) :
        w \in { << "h","r" >>, << "m","a","n","a","g","e","r" >> },
        n \in 0..MaxAudienceWords }

RequestBodies == [email_text : BodyEmailTexts, target_audience : BodyAudiences]

\* a JSON body is parsed into the request model
ValidateRequest(body) ==
    /\ validation_call' = [fn     |-> "EmailRewriteRequest",
                           body   |-> body,
                           result |-> EmailRewriteRequest(body)]
    /\ UNCHANGED <<pricing_vars, service_vars, extraction_call, prompt_call, monitor_vars>>

InitValidation ==
    /\ pricing_config = PRICING_CONFIG
    /\ pricing_call = [fn |-> NONE]
    /\ env = [OPENAI_API_KEY |-> NONE, MODEL_NAME |-> NoneText]
    /\ ServiceIdle
    /\ LibIdle
    /\ MonitorIdle

NextValidation == \E body \in RequestBodies : ValidateRequest(body)

SpecValidation == InitValidation /\ [][NextValidation]_vars

(***************************************************************************)
(* File contents and the calls of extract_text_from_file                   *)
(***************************************************************************)
\* the longest run of arbitrary bytes, the longest text, the most pages and
\* the most paragraphs of a file content
MaxBytes == 3

MaxTextLen == 3

MaxPages == 3

MaxParagraphs == 2

Seqs(S, n) == UNION { [1..k -> S] : k \in 0..n }

\* NUL, "a", the first byte of a two-byte UTF-8 sequence, and the two bytes
\* of the byte order mark
ByteValues == {0, 97, 195, 254, 255}

\* space, "a", no-break space, e with acute accent, the euro sign
TextChars == {32, 97, 160, 233, 8364}

\* page.extract_text() raises, or returns " ", "a", " b"
PageOutcomes ==
    { [ok |-> FALSE, text |-> << >>], [ok |-> TRUE, text |-> << 32 >>],
      [ok |-> TRUE, text |-> << 97 >>], [ok |-> TRUE, text |-> << 32, 98 >>] }

\* paragraph.text: "", "a", " b "
ParagraphTexts == { << >>, << 97 >>, << 32, 98, 32 >> }

\* "%PDF" and "PK"
PDF_BYTES  == << 37, 80, 68, 70 >>
DOCX_BYTES == << 80, 75 >>

FileContents ==
    { [bytes |-> bs, pdf |-> PdfReadError, docx |-> BadZipFile] :
        bs \in Seqs(ByteValues, MaxBytes)
                 \cup { utf8_encode(t) : t \in Seqs(TextChars, MaxTextLen) } }
    \cup
    { [bytes |-> PDF_BYTES, pdf |-> [kind |-> "document", pages |-> pages],
       docx |-> BadZipFile] : pages \in Seqs(PageOutcomes, MaxPages) }
    \cup
    { [bytes |-> DOCX_BYTES, pdf |-> PdfReadError,
       docx |-> [kind |-> "document", paragraphs |-> paragraphs]] :
        paragraphs \in Seqs(ParagraphTexts, MaxParagraphs) }

FileNames ==
    { << >>,
      << "a",".","t","x","t" >>, << "a",".","T","X","T" >>,
      << "a",".","p","d","f" >>, << "a",".","P","d","f" >>,
      << "a",".","d","o","c","x" >>, << "a",".","D","O","C","X" >>,
      << "a",".","p","d","f",".","t","x","t" >>,
      << "a",".","e","x","e" >>, << "t","x","t" >>, << ".","p","d","f" >> }

\* extract_text_from_file(file_content, filename) is called
ExtractTextFromFile ==
    /\ extraction_call.fn = NONE
    /\ extraction_call' =
           [fn             |-> "extract_text_from_file",
            file_content   |-> extraction_call.file_content,
            filename       |-> extraction_call.filename,
            PDF_AVAILABLE  |-> extraction_call.PDF_AVAILABLE,
            DOCX_AVAILABLE |-> extraction_call.DOCX_AVAILABLE,
            result         |-> extract_text_from_file(extraction_call.file_content,
                                                      extraction_call.filename,
                                                      extraction_call.PDF_AVAILABLE,
                                                      extraction_call.DOCX_AVAILABLE)]
    /\ UNCHANGED <<pricing_vars, service_vars, validation_call, prompt_call, monitor_vars>>

\* the bytes and the name a caller is about to pass, and the libraries that
\* were found when the module was imported
InitExtraction ==
    /\ pricing_config = PRICING_CONFIG
    /\ pricing_call = [fn |-> NONE]
    /\ env = [OPENAI_API_KEY |-> NONE, MODEL_NAME |-> NoneText]
    /\ ServiceIdle
    /\ validation_call = [fn |-> NONE]
    /\ prompt_call = [fn |-> NONE]
    /\ MonitorIdle
    /\ extraction_call \in [fn : {NONE}, file_content : FileContents,
                            filename : FileNames,
                            PDF_AVAILABLE : BOOLEAN, DOCX_AVAILABLE : BOOLEAN]

NextExtraction == ExtractTextFromFile

SpecExtraction == InitExtraction /\ [][NextExtraction]_vars

(***************************************************************************)
(* The calls of the prompt builder                                         *)
(***************************************************************************)
\* the most focus areas a call names
MaxFocusAreas == 2

\* the supported tones as they are, in other letter cases, and other values
PromptTones ==
    { TONE_PROFESSIONAL, TONE_CASUAL, TONE_ACADEMIC,
      upper(TONE_PROFESSIONAL), capitalize(TONE_CASUAL),
      << "f","r","i","e","n","d","l","y" >>, << >> }

\* an email whose text is a line of the template itself
TEMPLATE_LIKE_TEXT ==
    << "#","#","#"," ","G","u","i","d","e","l","i","n","e","s",":" >>

PromptEmailTexts == { EMAIL_TEXT, TEMPLATE_LIKE_TEXT }

FocusAreaNames == { << "b","r","e","v","i","t","y" >>, << "t","o","n","e" >> }

PromptFocusAreas == { NoneList } \cup Seqs(FocusAreaNames, MaxFocusAreas)

PromptInstructions == { NoneText, << >>, << "b","e"," ","k","i","n","d" >> }

\* rewrite_email, lines 73-80: the system prompt and the user prompt
BuildPrompts(email_text, tone, additional_instructions, focus_areas) ==
    /\ prompt_call' =
           [fn                      |-> "get_email_rewrite_prompt",
            email_text              |-> email_text,
            target_audience         |-> AUDIENCE,
            tone                    |-> tone,
            additional_instructions |-> additional_instructions,
            focus_areas             |-> focus_areas,
            system_prompt           |-> get_base_system_prompt,
            user_prompt             |-> get_email_rewrite_prompt(email_text, AUDIENCE, tone, additional_instructions, focus_areas)]
    /\ UNCHANGED <<pricing_vars, service_vars, validation_call, extraction_call, monitor_vars>>

InitPrompt ==
    /\ pricing_config = PRICING_CONFIG
    /\ pricing_call = [fn |-> NONE]
    /\ env = [OPENAI_API_KEY |-> NONE, MODEL_NAME |-> NoneText]
    /\ ServiceIdle
    /\ LibIdle
    /\ MonitorIdle

NextPrompt ==
    \E email_text \in PromptEmailTexts, tone \in PromptTones,
       additional_instructions \in PromptInstructions,
       focus_areas \in PromptFocusAreas :
        BuildPrompts(email_text, tone, additional_instructions, focus_areas)

SpecPrompt == InitPrompt /\ [][NextPrompt]_vars

(***************************************************************************)
(* The polling loop of InputFolderMonitor over a folder that files arrive  *)
(* in.                                                                     *)
(***************************************************************************)
MaxArrivals == 3
MaxScans    == 3
MaxFaults   == 1

TXT_LETTER == [bytes |-> << 97 >>, pdf |-> PdfReadError, docx |-> BadZipFile]
TXT_BLANK  == [bytes |-> << 32 >>, pdf |-> PdfReadError, docx |-> BadZipFile]
PDF_ONE_PAGE ==
    [bytes |-> PDF_BYTES, docx |-> BadZipFile,
     pdf |-> [kind |-> "document", pages |-> << [ok |-> TRUE, text |-> << 97 >>] >>]]

MonitorContents == { TXT_LETTER, TXT_BLANK, PDF_ONE_PAGE }

MonitorNames ==
    { << "a",".","t","x","t" >>, << "b",".","p","d","f" >>,
      << "c",".","e","x","e" >> }

\* the number of file operations the system lets fail in one step; the
\* rename of a file that is gone fails by itself
failures(saved, moved, renamed, present) ==
    IF ~present THEN (IF saved THEN 0 ELSE 1)
    ELSE IF saved /\ moved THEN 0
    ELSE (IF renamed THEN 0 ELSE 1) + 1

\* somebody drops a file into the input directory
FileArrives(name, content) ==
    /\ folder.arrivals < MaxArrivals
    /\ ~exists(folder, name)
    /\ folder' = [folder EXCEPT
                     !.arrivals = @ + 1,
                     !.input = @ \cup {[id |-> folder.arrivals + 1,
                                        name |-> name, content |-> content]}]
    /\ UNCHANGED <<pricing_vars, service_vars, lib_vars, monitor, batch>>

\* monitor_loop, lines 136-148: the loop wakes up and scans
Scan ==
    /\ monitor.pc = "sleep"
    /\ folder.clock < MaxScans
    /\ LET new_files == scan_for_new_files(folder, monitor)
       IN  monitor' = [monitor EXCEPT
                          !.new_files = new_files,
                          !.pc = IF new_files = << >> THEN "sleep" ELSE "loop"]
    /\ folder' = [folder EXCEPT !.clock = @ + 1]
    /\ UNCHANGED <<pricing_vars, service_vars, lib_vars, batch>>

\* process_file, lines 66-70 and 113-128: the text is extracted, up to the
\* await of save_output_file; a failure ends the call in the except block
ProcessFileExtract ==
    /\ monitor.pc = "loop"
    /\ LET name      == Head(monitor.new_files)
           file      == file_at(folder, name)
           file_data == process_input_folder_file(folder, name)
       IN  IF file_data.kind = "returned"
           THEN /\ monitor' = [monitor EXCEPT !.pc = "saving", !.current = name,
                                                !.source = file,
                                                !.file_data = file_data.text]
                /\ UNCHANGED folder
           ELSE \E renamed \in BOOLEAN :
                  /\ ~renamed /\ exists(folder, name) => folder.faults < MaxFaults
                  /\ ~exists(folder, name) => ~renamed
                  /\ LET after == process_file_except(folder, monitor, file, renamed)
                     IN  /\ monitor' = after.monitor
                         /\ folder' = [after.folder EXCEPT
                                          !.faults = @ + IF renamed \/ ~exists(folder, name)
                                                         THEN 0 ELSE 1]
    /\ UNCHANGED <<pricing_vars, service_vars, lib_vars, batch>>

\* process_file, lines 84-128: the rest of the call
ProcessFileSave ==
    /\ monitor.pc = "saving"
    /\ \E saved \in BOOLEAN, moved \in BOOLEAN, renamed \in BOOLEAN :
         LET present == exists(folder, monitor.current)
             failed  == failures(saved, moved, renamed, present)
             file    == file_at(folder, monitor.current)
             after   == process_file_save(folder, monitor, file,
                                          saved, moved, renamed)
         IN  /\ folder.faults + failed <= MaxFaults
             /\ present => (~saved => moved) /\ (saved /\ moved => renamed)
             /\ ~present => ~renamed /\ (moved <=> ~saved)
             /\ monitor' = after.monitor
             /\ folder' = [after.folder EXCEPT !.faults = @ + failed]
    /\ UNCHANGED <<pricing_vars, service_vars, lib_vars, batch>>

InitMonitor ==
    /\ pricing_config = PRICING_CONFIG
    /\ pricing_call = [fn |-> NONE]
    /\ env = [OPENAI_API_KEY |-> NONE, MODEL_NAME |-> NoneText]
    /\ ServiceIdle
    /\ LibIdle
    /\ MonitorIdle

NextMonitor ==
    \/ \E name \in MonitorNames, content \in MonitorContents :
         FileArrives(name, content)
    \/ Scan
    \/ ProcessFileExtract
    \/ ProcessFileSave

SpecMonitor == InitMonitor /\ [][NextMonitor]_vars

(***************************************************************************)
(* POST /process-input-folder over a folder that files arrive in           *)
(***************************************************************************)
MaxRequests == 2

\* a text of MIN_CONTENT_LENGTH letters, and a byte that is not UTF-8
TXT_LONG ==
    [bytes |-> [i \in 1..MIN_CONTENT_LENGTH |-> 97],
     pdf |-> PdfReadError, docx |-> BadZipFile]

TXT_UNDECODABLE ==
    [bytes |-> << 255 >>, pdf |-> PdfReadError, docx |-> BadZipFile]

EndpointContents == { TXT_LETTER, TXT_LONG, TXT_UNDECODABLE }

REWRITTEN == << "D","e","a","r" >>

\* what service.rewrite_email gives the endpoint: the dict or an exception
RewriteResults ==
    { [kind |-> "returned", type |-> NONE, content |-> REWRITTEN],
      [kind |-> "raised", type |-> "ValueError", content |-> << >>] }

\* POST /process-input-folder arrives
ProcessInputFolder ==
    /\ batch.pc = "idle"
    /\ batch.requests < MaxRequests
    /\ batch' = process_input_folder_endpoint(folder, batch)
    /\ UNCHANGED <<pricing_vars, service_vars, lib_vars, folder, monitor>>

\* the await of service.rewrite_email ends
RewriteEmailReturns(result) ==
    /\ batch.pc = "rewriting"
    /\ batch' = rewrite_email_returns(folder, batch, result)
    /\ UNCHANGED <<pricing_vars, service_vars, lib_vars, folder, monitor>>

\* the await of save_output_file ends, the file is moved
SaveOutputReturns ==
    /\ batch.pc = "saving"
    /\ \E saved \in BOOLEAN, moved \in BOOLEAN :
         LET present == exists(folder, batch.files[batch.next])
             failed  == IF present /\ ~(saved /\ moved) THEN 1
                        ELSE IF ~saved THEN 1 ELSE 0
             after   == save_and_move(folder, batch, saved, moved)
         IN  /\ folder.faults + failed <= MaxFaults
             /\ present => (~saved => moved)
             /\ ~present => (moved <=> ~saved)
             /\ batch' = after.batch
             /\ folder' = [after.folder EXCEPT !.faults = @ + failed]
    /\ UNCHANGED <<pricing_vars, service_vars, lib_vars, monitor>>

NextEndpoint ==
    \/ \E name \in MonitorNames, content \in EndpointContents :
         FileArrives(name, content)
    \/ ProcessInputFolder
    \/ \E result \in RewriteResults : RewriteEmailReturns(result)
    \/ SaveOutputReturns

SpecEndpoint == InitMonitor /\ [][NextEndpoint]_vars

(***************************************************************************)
(* The polling loop and POST /process-input-folder over the same folder,   *)
(* their steps interleaved at the awaits.                                  *)
(***************************************************************************)
FolderNames == { << "a",".","t","x","t" >>, << "b",".","t","x","t" >> }

\* two letters wait in the input directory when the service starts, and
\* every file operation is carried out
InitFolder ==
    /\ pricing_config = PRICING_CONFIG
    /\ pricing_call = [fn |-> NONE]
    /\ env = [OPENAI_API_KEY |-> NONE, MODEL_NAME |-> NoneText]
    /\ ServiceIdle
    /\ LibIdle
    /\ folder = [EmptyFolder EXCEPT
                    !.arrivals = 2, !.faults = MaxFaults,
                    !.input = { [id |-> 1, name |-> << "a",".","t","x","t" >>,
                                 content |-> TXT_LONG],
                                [id |-> 2, name |-> << "b",".","t","x","t" >>,
                                 content |-> TXT_LONG] }]
    /\ monitor = [processed_files |-> {}, pc |-> "sleep", new_files |-> << >>,
                  current |-> NoneText, last |-> NoResult, log |-> {},
                  source |-> NoFile, file_data |-> << >>]
    /\ batch = BatchIdle

NextFolder ==
    \/ \E name \in FolderNames : FileArrives(name, TXT_LONG)
    \/ Scan
    \/ ProcessFileExtract
    \/ ProcessFileSave
    \/ ProcessInputFolder
    \/ \E result \in RewriteResults : RewriteEmailReturns(result)
    \/ SaveOutputReturns

SpecFolder == InitFolder /\ [][NextFolder]_vars

(***************************************************************************)
(* Properties of the pricing table                                         *)
(***************************************************************************)
IsLookup == pricing_call.fn = "get_model_pricing"
IsCost   == pricing_call.fn = "calculate_cost"

\* the insertion order of PRICING_CONFIG as the claim spells it out
InsertionOrder ==
    << K_GPT_4O, K_GPT_4O_MINI, K_GPT_4_TURBO, K_GPT_4, K_GPT_35_TURBO >>

\* C2: get_model_pricing returns the prices of the registry key equal to the
\* lower-cased, trimmed name when there is one, and otherwise those of the
\* first key, in insertion order, that is a prefix of the normalized name;
\* an exact match is never overridden by a prefix match.
C2_ResolutionOrder ==
    IsLookup =>
        LET key == strip(lower(pricing_call.name))
        IN  IF key \in RegistryKeys
            THEN pricing_call.result = Prices(config_item(pricing_config, key))
            ELSE \A i \in 1..Len(InsertionOrder) :
                    ( /\ startswith(key, InsertionOrder[i])
                      /\ \A j \in 1..(i-1) : ~startswith(key, InsertionOrder[j]) )
                    => pricing_call.result =
                           Prices(config_item(pricing_config, InsertionOrder[i]))

\* an exact match, written in another case or padded, that an earlier key
\* (gpt-4o) prefixes, resolved to its own entry
C2_Witness ==
    /\ IsLookup
    /\ pricing_call.name # K_GPT_4O_MINI
    /\ strip(lower(pricing_call.name)) = K_GPT_4O_MINI
    /\ pricing_call.result = [input |-> 150, output |-> 600]

\* C3: a registry key followed by a hyphen and a date/version suffix
\* resolves to the prices registered for that key.
C3_DatedVariantResolvesToItsModel ==
    IsLookup =>
        \A k \in RegistryKeys, suf \in DateSuffixes :
            pricing_call.name = k \o suf
            => pricing_call.result = Prices(config_item(pricing_config, k))

\* C4: for a name that no registry key equals or prefixes, get_model_pricing
\* returns the prices of gpt-4o (0.005 / 0.015 per 1,000 tokens); no lookup
\* changes the registry.
C4_DefaultFallback ==
    /\ pricing_config = PRICING_CONFIG
    /\ IsLookup =>
         LET key == strip(lower(pricing_call.name))
         IN  (\A k \in RegistryKeys : ~startswith(key, k))
             => pricing_call.result = [input |-> 5000, output |-> 15000]

C4_Witness ==
    /\ IsLookup
    /\ strip(lower(pricing_call.name)) = << "c","l","a","u","d","e" >>
    /\ pricing_call.result = [input |-> 5000, output |-> 15000]

\* C5: calculate_cost raises when a token count is negative, and so never
\* returns a negative cost.
C5_NegativeTokensRaise ==
    IsCost =>
        /\ (pricing_call.input_tokens < 0 \/ pricing_call.output_tokens < 0)
               => pricing_call.raised
        /\ ~pricing_call.raised => pricing_call.value >= 0

\* C6: for token counts a, b >= 0 calculate_cost returns
\* a/1000 * input_price + b/1000 * output_price rounded to 6 decimal places
\* (the multiple of one micro-USD nearest to the exact sum), returns 0 for
\* (0, 0), and returns the same value whenever the arguments are the same.
C6_CostFormula ==
    /\ [] ( ( /\ IsCost
              /\ pricing_call.input_tokens >= 0
              /\ pricing_call.output_tokens >= 0 )
            => LET p     == get_model_pricing(pricing_config, pricing_call.model_name)
                   exact == pricing_call.input_tokens * p.input
                              + pricing_call.output_tokens * p.output
                   err   == 1000 * pricing_call.value - exact
               IN  /\ ~pricing_call.raised
                   /\ -500 <= err /\ err <= 500
                   /\ ( pricing_call.input_tokens = 0
                        /\ pricing_call.output_tokens = 0 )
                      => pricing_call.value = 0 )
    /\ [][ ( /\ IsCost
             /\ pricing_call'.fn = "calculate_cost"
             /\ pricing_call'.input_tokens = pricing_call.input_tokens
             /\ pricing_call'.output_tokens = pricing_call.output_tokens
             /\ pricing_call'.model_name = pricing_call.model_name )
           => pricing_call'.value = pricing_call.value ]_vars

\* 100 prompt and 50 completion tokens of gpt-4o cost 0.00125 USD
C6_Witness ==
    /\ IsCost
    /\ pricing_call.input_tokens = 100
    /\ pricing_call.output_tokens = 50
    /\ pricing_call.model_name = K_GPT_4O
    /\ pricing_call.value = 1250

(***************************************************************************)
(* Properties of the rewrite service and of the handlers                   *)
(***************************************************************************)
Returned == pc = "finished" /\ outcome.kind = "returned"
Raised   == pc = "finished" /\ outcome.kind = "raised"

\* C1: the cost_usd of every result rewrite_email returns is
\* calculate_cost(prompt_tokens, completion_tokens, self.model), the
\* Pricing Table cost rounded to 6 decimal places (for gpt-4o and usage
\* 100 / 50: 0.00125).
C1_CostFromPricingTable ==
    Returned =>
        outcome.value.usage.cost_usd =
            calculate_cost(pricing_config,
                           outcome.value.usage.input_tokens,
                           outcome.value.usage.output_tokens,
                           svc.model).value

\* C7: rewrite_email returns no result with empty content; a completion
\* whose text is empty after trimming, or whose usage is absent, ends in
\* the empty-response error.
C7_NoEmptyContent ==
    /\ Returned => outcome.value.content # << >>
    /\ ( /\ pc = "finished"
         /\ response.kind = "completion"
         /\ response.choices = 1
         /\ \/ response.content = NoneText
            \/ strip(response.content) = << >>
            \/ response.usage = NoneRec )
       => outcome \in {ValueError(MSG_EMPTY_RESPONSE), ValueError(MSG_NO_USAGE)}

\* C8: one invocation of rewrite_email issues at most one completion call,
\* whatever the outcome, and the call carries the system prompt and then
\* the user prompt, with the configured model, temperature and max_tokens.
C8_OneCompletionCall ==
    /\ Len(completion_calls) <= 1
    /\ (pc \in {"awaiting", "finished"} /\ completion_calls # << >>)
       => LET c == completion_calls[1]
          IN  /\ Len(c.messages) = 2
              /\ c.messages[1] =
                   [role |-> "system", content |-> get_base_system_prompt]
              /\ c.messages[2] =
                   [role |-> "user",
                    content |-> get_email_rewrite_prompt(
                                    args.email_text, args.target_audience,
                                    args.tone, args.additional_instructions,
                                    args.focus_areas)]
              /\ c.model = svc.model
              /\ c.temperature = svc.temperature
              /\ c.max_tokens = svc.max_tokens

\* the upstream call failed and was not repeated
C8_Witness ==
    /\ Raised
    /\ outcome.type = "OpenAIError"
    /\ Len(completion_calls) = 1

NoCredential == env.OPENAI_API_KEY \in {NONE, ""}

\* C9: without an injected client and without a credential rewrite_email
\* fails with the configuration error before any completion call; an
\* injected client is used whatever the environment holds; the client a
\* service has, injected or created, is the one all its later calls use.
C9_ClientResolution ==
    /\ [] ( pc \in {"awaiting", "finished"} =>
              /\ (svc._client # INJECTED_CLIENT /\ NoCredential)
                 => /\ pc = "finished"
                    /\ outcome = ValueError(MSG_NO_API_KEY)
                    /\ completion_calls = << >>
              /\ svc._client = INJECTED_CLIENT
                 => /\ Len(completion_calls) = 1
                    /\ completion_calls[1].client = INJECTED_CLIENT
                    /\ outcome # ValueError(MSG_NO_API_KEY)
              /\ completion_calls # << >>
                 => completion_calls[1].client = svc._client )
    /\ [][ (svc'.id = svc.id /\ svc._client # NONE)
           => svc'._client = svc._client ]_vars

\* an injected client served a call although no credential is set
C9_Witness ==
    /\ Returned
    /\ NoCredential
    /\ svc._client = INJECTED_CLIENT
    /\ completion_calls[1].client = INJECTED_CLIENT

\* C10: on /rewrite and /rewrite-upload a failure of rewrite_email (missing
\* credential, upstream failure, empty response, missing usage) is never
\* answered with VALIDATION_ERROR.
C10_ServiceFailureNotValidationError ==
    (http.kind = "error" /\ outcome.kind = "raised")
    => http.error_code # "VALIDATION_ERROR"
(***************************************************************************)
(* Properties of request validation                                        *)
(***************************************************************************)
IsValidation == validation_call.fn = "EmailRewriteRequest"

\* the error of the word-count check: it cites the words found and the minimum
WordCountError(r, found, minimum) ==
    /\ r.kind = "error"
    /\ r.type = "value_error"
    /\ r.found = found
    /\ r.minimum = minimum

\* C11: a request whose email_text has fewer than 10 words fails validation
\* with the word-count error that cites the number of words found and the
\* minimum 10; a request whose email_text has at least 10 words and whose
\* target_audience has at least 2 words passes validation.
C11_WordCountValidation ==
    IsValidation =>
        LET body == validation_call.body
            r    == validation_call.result
        IN  /\ word_count(body.email_text) < 10 =>
                  /\ ~r.valid
                  /\ WordCountError(r.email_text, word_count(body.email_text), 10)
            /\ (word_count(body.email_text) >= 10
                  /\ word_count(body.target_audience) >= 2) => r.valid

\* the text is free of control characters, trimmed, and has the words asked for
Validated(text, min_words) ==
    /\ scrub_control(text) = text
    /\ strip(text) = text
    /\ word_count(text) >= min_words

\* C12: whenever a handler (/rewrite, /rewrite-upload) has invoked
\* rewrite_email, and so for every completion call made on its behalf, the
\* email_text and the target_audience it passed are free of control
\* characters, trimmed, and have at least 10 and at least 2 words.
C12_OnlyValidatedTextReachesCompletion ==
    (pc # "idle" /\ entry \in {"/rewrite", "/rewrite-upload"}) =>
        /\ Validated(args.email_text, 10)
        /\ Validated(args.target_audience, 2)

(***************************************************************************)
(* Properties of text extraction                                           *)
(***************************************************************************)
IsExtraction == extraction_call.fn = "extract_text_from_file"

\* the names of FileNames by the format their extension stands for
TxtNames ==
    { << "a",".","t","x","t" >>, << "a",".","T","X","T" >>,
      << "a",".","p","d","f",".","t","x","t" >> }

PdfNames == { << "a",".","p","d","f" >>, << "a",".","P","d","f" >> }

DocxNames == { << "a",".","d","o","c","x" >>, << "a",".","D","O","C","X" >> }

UnsupportedNames == FileNames \ (TxtNames \cup PdfNames \cup DocxNames)

\* C13: the extractor is chosen by the extension of the filename alone, in
\* any letter case and whatever the bytes are; a filename whose extension is
\* none of .txt, .pdf, .docx fails with ValueError before the content is read
\* or parsed, and with the unsupported-type message when there is a filename
\* at all.
C13_DispatchOnExtension ==
    IsExtraction =>
        LET name == extraction_call.filename
            r    == extraction_call.result
        IN  /\ name \in TxtNames  => r.extractor = "txt"
            /\ name \in PdfNames  => r.extractor = "pdf"
            /\ name \in DocxNames => r.extractor = "docx"
            /\ name \in UnsupportedNames =>
                  /\ r.extractor = NONE
                  /\ r.kind = "raised"
                  /\ r.type = "ValueError"
                  /\ ~r.read
                  /\ r.parser = NONE
                  /\ name # << >> =>
                        r.message = << "Unsupported file type: {file_extension}. Supported types: .txt, .pdf, .docx" >>

\* a readable PDF document sent under a .TXT name is decoded as text
C13_Witness ==
    /\ IsExtraction
    /\ extraction_call.filename = << "a",".","T","X","T" >>
    /\ extraction_call.file_content.pdf.kind = "document"
    /\ extraction_call.result.extractor = "txt"
    /\ extraction_call.result.kind = "returned"
    /\ extraction_call.result.text = PDF_BYTES

\* C14: under a .txt name, the UTF-8 encoding of a text t that is not made of
\* whitespace alone extracts to t without its leading and trailing
\* whitespace; and the decoding stops at the first of UTF-8, UTF-16, Latin-1,
\* Windows-1252, in that order, that decodes the bytes without error.
C14_TxtRoundTrip ==
    (IsExtraction /\ extraction_call.filename \in TxtNames) =>
        LET bytes == extraction_call.file_content.bytes
            r     == extraction_call.result
        IN  /\ \A t \in Seqs(TextChars, MaxTextLen) :
                  (py_strip(t) # << >> /\ bytes = utf8_encode(t)) =>
                      /\ r.kind = "returned"
                      /\ r.text = py_strip(t)
            /\ bytes # << >> =>
                  r.encoding =
                      IF utf8_decode(bytes).ok THEN "utf-8"
                      ELSE IF utf16_decode(bytes).ok THEN "utf-16"
                      ELSE IF latin1_decode(bytes).ok THEN "latin-1"
                      ELSE "cp1252"

\* " e-acute no-break-space" in UTF-8 comes back as "e-acute"
C14_Witness ==
    /\ IsExtraction
    /\ extraction_call.filename = << "a",".","t","x","t" >>
    /\ extraction_call.file_content.bytes = << 32, 195, 169, 194, 160 >>
    /\ extraction_call.result.kind = "returned"
    /\ extraction_call.result.text = << 233 >>
    /\ extraction_call.result.encoding = "utf-8"

\* the messages the extraction of an empty content fails with, by format
EmptyMessages(extractor) ==
    CASE extractor = "txt" -> { << "Text file is empty" >> }
      [] extractor = "pdf" ->
            { << "Failed to process PDF file: ", "PDF file is empty" >>,
              << "PDF processing not available. Install PyPDF2: pip install PyPDF2" >> }
      [] extractor = "docx" ->
            { << "Failed to process DOCX file: ", "DOCX file is empty" >>,
              << "DOCX processing not available. Install python-docx: pip install python-docx" >> }

\* C15: the extraction of an empty content fails under a .txt, a .pdf and a
\* .docx name alike, no parsing library has been invoked when it does, and the
\* message is one of the messages of its own format, which are messages of no
\* other format.
C15_EmptyContentFails ==
    (/\ IsExtraction
     /\ extraction_call.file_content.bytes = << >>
     /\ extraction_call.filename \in TxtNames \cup PdfNames \cup DocxNames) =>
        LET r == extraction_call.result
        IN  /\ r.kind = "raised"
            /\ r.parser = NONE
            /\ r.message \in EmptyMessages(r.extractor)
            /\ \A other \in {"txt", "pdf", "docx"} \ {r.extractor} :
                  r.message \notin EmptyMessages(other)

C15_Witness ==
    /\ IsExtraction
    /\ extraction_call.file_content.bytes = << >>
    /\ extraction_call.filename = << "a",".","D","O","C","X" >>
    /\ extraction_call.DOCX_AVAILABLE
    /\ extraction_call.result.kind = "raised"
    /\ extraction_call.result.message = << "Failed to process DOCX file: ", "DOCX file is empty" >>

\* the texts of the pages that extracted and are not blank, in page order
GoodPageTexts(pages) ==
    LET good == SelectSeq(pages, LAMBDA page : page.ok /\ py_strip(page.text) # << >>)
    IN  [i \in 1..Len(good) |-> good[i].text]

\* C16: for a PDF that PyPDF2 opens, a page whose extraction raises is left
\* out and the other pages are extracted: the result is the texts of the
\* pages that extracted and are not blank, in page order, joined by newlines
\* (and trimmed at both ends); the extraction fails exactly when the document
\* has no page or none of its pages gives text that is not blank.
C16_PdfPageIsolation ==
    (/\ IsExtraction
     /\ extraction_call.result.extractor = "pdf"
     /\ extraction_call.PDF_AVAILABLE
     /\ extraction_call.file_content.pdf.kind = "document") =>
        LET pages == extraction_call.file_content.pdf.pages
            r     == extraction_call.result
        IN  /\ r.kind = "raised" <=>
                  (Len(pages) = 0 \/ GoodPageTexts(pages) = << >>)
            /\ r.kind = "returned" =>
                  r.text = py_strip(join_newline(GoodPageTexts(pages)))

\* three pages, the second one raising: the text of pages 1 and 3
C16_Witness ==
    /\ IsExtraction
    /\ extraction_call.filename = << "a",".","p","d","f" >>
    /\ extraction_call.PDF_AVAILABLE
    /\ extraction_call.file_content.pdf.kind = "document"
    /\ extraction_call.file_content.pdf.pages =
           << [ok |-> TRUE, text |-> << 97 >>], [ok |-> FALSE, text |-> << >>],
              [ok |-> TRUE, text |-> << 32, 98 >>] >>
    /\ extraction_call.result.kind = "returned"
    /\ extraction_call.result.text = << 97, 10, 32, 98 >>

\* C17: whenever extract_text_from_file fails, the exception is a ValueError;
\* when a parsing library raised, the message of the ValueError ends with the
\* message of the library's exception.
C17_FailuresAreValueErrors ==
    (IsExtraction /\ extraction_call.result.kind = "raised") =>
        LET file == extraction_call.file_content
            r    == extraction_call.result
        IN  /\ r.type = "ValueError"
            /\ r.message # << >>
            /\ (r.parser = "PyPDF2" /\ file.pdf.kind = "raised") =>
                  r.message[Len(r.message)] = file.pdf.message
            /\ (r.parser = "docx" /\ file.docx.kind = "raised") =>
                  r.message[Len(r.message)] = file.docx.message

\* PyPDF2 fails on bytes that are no PDF: a ValueError with its message
C17_Witness ==
    /\ IsExtraction
    /\ extraction_call.filename = << "a",".","P","d","f" >>
    /\ extraction_call.result.parser = "PyPDF2"
    /\ extraction_call.file_content.pdf.kind = "raised"
    /\ extraction_call.result.kind = "raised"
    /\ extraction_call.result.type = "ValueError"
    /\ extraction_call.result.message = << "Failed to process PDF file: ", "EOF marker not found" >>

(***************************************************************************)
(* Properties of the prompts                                               *)
(***************************************************************************)
IsPrompt == prompt_call.fn = "get_email_rewrite_prompt"

Has(p, piece) == \E i \in 1..Len(p) : p[i] = piece

\* the first place of the piece in the prompt
IndexOf(p, piece) ==
    CHOOSE i \in 1..Len(p) : p[i] = piece /\ \A j \in 1..(i - 1) : p[j] # piece

\* the headers of the blocks that can follow the tone section
BlockHeaders ==
    { Lit("### Key Focus Areas:"), Lit("### Additional Instructions:"),
      Lit("### Guidelines:") }

\* what the prompt has between the tone header and the header after it
ToneSection(p) ==
    LET i == IndexOf(p, Lit("### Tone Requirement:"))
        j == CHOOSE k \in (i + 1)..Len(p) :
                 p[k] \in BlockHeaders /\ \A m \in (i + 1)..(k - 1) : p[m] \notin BlockHeaders
    IN  SubSeq(p, i + 1, j - 1)

SupportedTones == { TONE_PROFESSIONAL, TONE_CASUAL, TONE_ACADEMIC }

CannedDescription(tone) ==
    CASE tone = << "p","r","o","f","e","s","s","i","o","n","a","l" >> ->
             << "formal, respectful, and business-appropriate" >>
      [] tone = << "c","a","s","u","a","l" >> ->
             << "friendly, approachable, and conversational" >>
      [] tone = << "a","c","a","d","e","m","i","c" >> ->
             << "scholarly, precise, and well-structured" >>

FallbackDescription == << "balanced and appropriate for the context" >>

\* C18: for the tone values professional, casual and academic the tone section
\* of the user prompt has the description of that tone and neither the
\* description of another tone nor the fallback phrase; every other value,
\* a supported name in another letter case included, gets the fallback phrase
\* and no canned description; and the section starts with the tone as the
\* caller gave it but for the case of its letters, the first one upper-cased.
C18_ToneSection ==
    IsPrompt =>
        LET tone    == prompt_call.tone
            section == ToneSection(prompt_call.user_prompt)
            pieces  == { section[k] : k \in 1..Len(section) }
        IN  /\ Len(section) >= 1
            /\ lower(section[1]) = lower(tone)
            /\ tone # << >> => section[1][1] = upper_char(tone[1])
            /\ \A t \in SupportedTones :
                  tone = t =>
                      /\ CannedDescription(t) \in pieces
                      /\ FallbackDescription \notin pieces
                      /\ \A other \in SupportedTones \ {t} :
                            CannedDescription(other) \notin pieces
            /\ tone \notin SupportedTones =>
                  /\ FallbackDescription \in pieces
                  /\ \A t \in SupportedTones : CannedDescription(t) \notin pieces

C18_Witness ==
    /\ IsPrompt
    /\ prompt_call.tone = TONE_CASUAL
    /\ ToneSection(prompt_call.user_prompt) =
           << << "C","a","s","u","a","l" >>, << " tone - " >>,
              << "friendly, approachable, and conversational" >> >>

\* the ten lines every user prompt ends with
ClosingBlock ==
    << << "### Guidelines:" >>,
       << "1. Maintain the core message and intent of the original email" >>,
       << "2. Improve clarity, conciseness, and readability" >>,
       << "3. Ensure appropriate greeting and closing" >>,
       << "4. Use proper email structure with clear paragraphs" >>,
       << "5. Adapt language and terminology for the target audience" >>,
       << "6. Remove redundancy and filler words" >>,
       << "7. Ensure professional formatting and grammar" >>,
       << "### Output Format:" >>,
       << "Provide only the rewritten email content without any explanations, comments, or metadata. The output should be ready to send as-is." >> >>

SystemPromptText ==
    << << "You are an expert professional email writer and communication specialist with deep expertise in:" >>,
       << "- Corporate communication best practices" >>,
       << "- Tone and style adaptation for different audiences" >>,
       << "- Clear, concise, and effective writing" >>,
       << "- Professional email etiquette and formatting" >>,
       << "Your role is to rewrite emails to make them more effective, professional, and tailored to the target audience while maintaining the original intent and key information." >> >>

\* the blocks of the user prompt of the last call
PromptBlocks ==
    LET p     == prompt_call.user_prompt
        areas == prompt_call.focus_areas
        extra == prompt_call.additional_instructions
    IN  /\ \E i \in 1..(Len(p) - 3) :
              /\ p[i] = << "### Original Email:" >>
              /\ p[i + 2] = prompt_call.email_text
        /\ \E i \in 1..(Len(p) - 1) :
              /\ p[i] = << "### Target Audience/Context:" >>
              /\ p[i + 1] = prompt_call.target_audience
        /\ Len(p) >= 10
        /\ SubSeq(p, Len(p) - 9, Len(p)) = ClosingBlock
        /\ Has(p, << "### Key Focus Areas:" >>) <=> areas \notin {NoneList, << >>}
        /\ Has(p, << "### Key Focus Areas:" >>) =>
              LET i == IndexOf(p, << "### Key Focus Areas:" >>)
              IN  /\ \A k \in 1..Len(areas) :
                        /\ p[i + 2 * k - 1] = << "- Emphasize " >>
                        /\ p[i + 2 * k] = areas[k]
                  /\ p[i + 2 * Len(areas) + 1] \in BlockHeaders
        /\ Has(p, << "### Additional Instructions:" >>) <=> extra \notin {NoneText, << >>}
        /\ Has(p, << "### Additional Instructions:" >>) =>
              LET i == IndexOf(p, << "### Additional Instructions:" >>)
              IN  /\ p[i + 1] = extra
                  /\ p[i + 2] = << "### Guidelines:" >>
        /\ prompt_call.system_prompt = SystemPromptText

\* two calls with the same arguments give the same prompts
SameInputsSamePrompts ==
    (/\ IsPrompt
     /\ prompt_call'.email_text = prompt_call.email_text
     /\ prompt_call'.target_audience = prompt_call.target_audience
     /\ prompt_call'.tone = prompt_call.tone
     /\ prompt_call'.additional_instructions = prompt_call.additional_instructions
     /\ prompt_call'.focus_areas = prompt_call.focus_areas) =>
        /\ prompt_call'.user_prompt = prompt_call.user_prompt
        /\ prompt_call'.system_prompt = prompt_call.system_prompt

\* C19: every user prompt has the original email text, the target audience
\* and, at its end, the guidelines and output-format blocks; it has the
\* focus-areas block exactly when focus_areas is a non-empty list, with one
\* bullet per area in the order of the list, and the additional-instructions
\* block exactly when additional_instructions is a non-empty string; the same
\* arguments always give the same prompt, and the system prompt is one fixed
\* text.
C19_PromptBlocks ==
    /\ [](IsPrompt => PromptBlocks)
    /\ [][SameInputsSamePrompts]_vars

\* two focus areas and an instruction: both blocks, the bullets in order
C19_Witness ==
    /\ IsPrompt
    /\ prompt_call.focus_areas = << << "t","o","n","e" >>, << "b","r","e","v","i","t","y" >> >>
    /\ prompt_call.additional_instructions = << "b","e"," ","k","i","n","d" >>
    /\ LET p == prompt_call.user_prompt
           i == IndexOf(p, << "### Key Focus Areas:" >>)
       IN  SubSeq(p, i, i + 6) =
               << << "### Key Focus Areas:" >>,
                  << "- Emphasize " >>, << "t","o","n","e" >>,
                  << "- Emphasize " >>, << "b","r","e","v","i","t","y" >>,
                  << "### Additional Instructions:" >>,
                  << "b","e"," ","k","i","n","d" >> >>
(***************************************************************************)
(* The polling loop                                                        *)
(***************************************************************************)
IsMonitor == monitor.last.kind # NONE

\* the entries of a directory that hold a given file
Held(dir, file) == {e \in folder[dir] : e.file = file}

\* error_<timestamp>_<name> for the timestamp of some scan so far
TimestampedNames(name) ==
    { << "error_", ToString(t), "_" >> \o name : t \in 1..folder.clock }

\* C20: every file for which process_file has returned is out of the input
\* directory and in exactly one terminal directory under exactly one name:
\* in processed/ under its own name and not in errors/ when the result is a
\* success, in errors/ under a timestamped name and not in processed/ when
\* the result is an error; and it stays there as the loop goes on.
C20_OneTerminalLocation ==
    \A r \in monitor.log :
        /\ r.file \notin folder.input
        /\ r.status \in {"success", "error"}
        /\ r.status = "success" =>
               /\ Held("processed", r.file) = {Entry(r.file, r.file.name)}
               /\ Held("errors", r.file) = {}
        /\ r.status = "error" =>
               /\ Held("processed", r.file) = {}
               /\ Cardinality(Held("errors", r.file)) = 1
               /\ \A e \in Held("errors", r.file) :
                      e.stored_as \in TimestampedNames(r.file.name)

\* one file was moved to processed/, another failed after its output was
\* written and was moved to errors/, a third failed in the extraction
C20_Witness ==
    \E r1 \in monitor.log, r2 \in monitor.log, r3 \in monitor.log :
        /\ r1.status = "success"
        /\ r2.status = "error" /\ Held("output", r2.file) # {}
        /\ r3.status = "error" /\ Held("output", r3.file) = {}

(***************************************************************************)
(* POST /process-input-folder                                              *)
(***************************************************************************)
\* the endpoint has answered a request that found files
Answered == batch.pc = "idle" /\ batch.requests > 0 /\ batch.response.scanned # << >>

ResultsOf(status) ==
    {batch.response.results[i] : i \in
        {j \in 1..Len(batch.response.results) :
            batch.response.results[j].status = status}}

InInput(id) == \E f \in folder.input : f.id = id

HeldById(dir, id) == {e \in folder[dir] : e.file.id = id}

\* C21: when /process-input-folder has answered, no file that was processed
\* is left in the input directory: a file whose record is an error is in
\* errors/, a file whose record is a success is in processed/.
C21_FailedFilesLeaveInput ==
    Answered =>
        /\ \A r \in ResultsOf("error") :
               ~InInput(r.source) /\ HeldById("errors", r.source) # {}
        /\ \A r \in ResultsOf("success") :
               ~InInput(r.source) /\ HeldById("processed", r.source) # {}

\* the polling loop ends a pass: it was in a call of process_file and sleeps
PassEnds == monitor.pc \in {"loop", "saving"} /\ monitor'.pc = "sleep"

\* the call of process_file that ends was for the last path of the scan
LastFileOfScan == Len(monitor.new_files) = 1

EveryScannedFileHasRecord ==
    Answered =>
        [i \in 1..Len(batch.response.results) |-> batch.response.results[i].file]
            = batch.response.scanned

\* C22: a pass handles every file its scan discovered, whatever happened to
\* the files before it: the polling loop goes back to sleep only from the
\* call of process_file for the last path of the scan, and when the
\* endpoint has answered there is a record for each path of its scan.
C22_FailuresIsolatedPerFile ==
    [][PassEnds => LastFileOfScan]_vars /\ []EveryScannedFileHasRecord

\* the endpoint has answered, with or without files
Responded == batch.pc = "idle" /\ batch.requests > 0

ResultFiles(results) == [i \in 1..Len(results) |-> results[i].file]

\* C23: the answer of /process-input-folder counts every scanned file once:
\* the results list has one record per scanned file, in scan order, each
\* with one of the three statuses, and processed, failed and skipped are
\* the numbers of records of each status, so they add up to the number of
\* scanned files.  A scan that finds nothing is answered with processed = 0
\* and no list.
C23_TriStateCount ==
    Responded =>
        LET r == batch.response
        IN  IF r.scanned = << >> THEN r.processed = 0
            ELSE /\ ResultFiles(r.results) = r.scanned
                 /\ \A i \in 1..Len(r.results) :
                        r.results[i].status \in {"success", "error", "skipped"}
                 /\ r.processed = Cardinality(ResultsOf("success"))
                 /\ r.failed = Cardinality(ResultsOf("error"))
                 /\ r.skipped = Cardinality(ResultsOf("skipped"))
                 /\ r.processed + r.failed + r.skipped = Len(r.scanned)

\* a request found two files and skipped the older one; the other was
\* processed or failed
C23_Witness ==
    /\ Answered
    /\ Len(batch.response.results) = 2
    /\ batch.response.results[1].status = "skipped"
    /\ batch.response.processed + batch.response.failed = 1

\* the polling loop extracts a text from the file, shorter than the threshold
ExtractsShortText(file) ==
    LET e == extract_text_from_file(file.content, file.name, TRUE, TRUE)
    IN  e.kind = "returned" /\ Len(e.text) < MIN_CONTENT_LENGTH

\* the endpoint reads a text from the file, shorter than the threshold
ReadsShortText(file) ==
    LET d == utf8_decode(file.content.bytes)
    IN  d.ok /\ Len(d.text) < MIN_CONTENT_LENGTH

Skipped(file) ==
    /\ file \in folder.input
    /\ Held("processed", file) = {} /\ Held("errors", file) = {}
    /\ Held("output", file) = {}

\* the polling loop reports neither a success nor a failure for a file
\* whose text is shorter than the threshold, and leaves it alone
LoopSkipsShortFiles ==
    \A r \in monitor.log :
        ExtractsShortText(r.file) =>
            r.status \notin {"success", "error"} /\ Skipped(r.file)

\* the endpoint does the same, and makes no call of rewrite_email for it
EndpointSkipsShortFiles ==
    Answered =>
        \A i \in 1..Len(batch.response.results) :
            LET r == batch.response.results[i]
            IN  \A f \in folder.input :
                    f.id = r.source /\ ReadsShortText(f) =>
                        /\ r.status = "skipped"
                        /\ Skipped(f)
                        /\ \A j \in 1..Len(batch.calls) : batch.calls[j].source # f.id

\* C24: in the polling loop and in the endpoint a file whose text is shorter
\* than the minimum content length is skipped: it stays in the input
\* directory, nothing is written and no completion is asked for it, and its
\* result is neither a success nor a failure.
C24_ShortFilesAreSkipped == LoopSkipsShortFiles /\ EndpointSkipsShortFiles

\* C25: for every file the polling loop has processed with success, the
\* rewrite service was asked for a completion before the file was moved to
\* processed/, and the output file written for it holds the rewritten
\* content.
C25_LoopRewritesBeforeRelocation ==
    \A r \in monitor.log :
        r.status = "success" =>
            /\ Held("processed", r.file) # {}
            /\ Len(completion_calls) >= 1
            /\ Held("output", r.file) # {}
            /\ \A o \in Held("output", r.file) : o.content.kind = "rewritten"

(***************************************************************************)
(* The result of rewrite_email                                             *)
(***************************************************************************)
\* C26: every result rewrite_email returns carries the counters of the
\* completion's usage: input_tokens, output_tokens and total_tokens are
\* natural numbers, total_tokens = input_tokens + output_tokens, and model
\* is the model the completion call was sent with.
C26_UsageCountersAndModel ==
    Returned =>
        LET usage == outcome.value.usage
        IN  /\ usage.input_tokens \in Nat
            /\ usage.output_tokens \in Nat
            /\ usage.total_tokens \in Nat
            /\ usage.input_tokens = response.usage.prompt_tokens
            /\ usage.output_tokens = response.usage.completion_tokens
            /\ usage.total_tokens = usage.input_tokens + usage.output_tokens
            /\ Len(completion_calls) = 1
            /\ outcome.value.model = completion_calls[1].model

\* a result with tokens on both sides, from a service whose model comes
\* from the environment
C26_Witness ==
    /\ Returned
    /\ outcome.value.usage.input_tokens > 0
    /\ outcome.value.usage.output_tokens > 0
    /\ outcome.value.model # DEFAULT_MODEL

(***************************************************************************)
(* The polling loop and the endpoint together                              *)
(***************************************************************************)
\* no output was written twice for one file
OutputWrittenOnce ==
    \A i \in DOMAIN folder.written, j \in DOMAIN folder.written :
        i # j => folder.written[i].file # folder.written[j].file

\* the endpoint found a file of its scan gone, when it read it or moved it
EndpointFoundFileGone ==
    \E i \in DOMAIN batch.results : batch.results[i].error = "FileNotFoundError"

\* process_file found the file of its path gone
LoopFoundFileGone == monitor.last.kind # NONE /\ monitor.last.file.id = 0

\* C27: with the polling loop and /process-input-folder interleaved at
\* their awaits over one input directory, no file is handled by both: no
\* file has its output written twice, and neither of the two fails on a
\* file because the other has moved it away.
C27_NoFileHandledByBoth ==
    /\ OutputWrittenOnce
    /\ ~EndpointFoundFileGone
    /\ ~LoopFoundFileGone

(***************************************************************************)
(* The processed-file set                                                  *)
(***************************************************************************)
\* the polling loop scans
ScanStep == monitor.pc = "sleep" /\ folder'.clock = folder.clock + 1

\* what the scan of a loop without the set returns in the same folder
scan_ignoring_the_set == scan_for_new_files(folder, [monitor EXCEPT !.processed_files = {}])

\* C28: the processed-file set changes nothing: every scan of the polling
\* loop returns the files, in the order, that the scan of a loop ignoring
\* the set returns in the same folder, so both loops handle the same files
\* in the same order, also when a file arrives under the path of a file
\* handled before.
C28_ProcessedSetIsRedundant ==
    [][ScanStep => monitor'.new_files = scan_ignoring_the_set]_vars

\* a file is in processed/ only with an output written for it
ProcessedHaveOutput == \A e \in folder.processed : Held("output", e.file) # {}

\* no output was written for a file that is in errors/
ErrorsHaveNoOutput == \A e \in folder.errors : Held("output", e.file) = {}

\* every path of the set is the path of a file that is in processed/
MarkedAreProcessed ==
    \A path \in monitor.processed_files :
        \E e \in folder.processed : e.file.name = path

\* C29: in the polling loop the output and the place a file ends in agree:
\* a file in processed/ has its output file, written before the move; a
\* file in errors/ has none; the processed-file set holds only paths of
\* files that are in processed/.
C29_OutputAgreesWithLocation ==
    ProcessedHaveOutput /\ ErrorsHaveNoOutput /\ MarkedAreProcessed

\* the five checks of an upload in the order the handler is to run them:
\* whether the file passes each, and the message of the rejection
UploadPasses(file) ==
    << file.filename # << >>,
       validate_file_type(file.filename),
       file.size <= MAX_SIZE_BYTES,
       file.text # NoneText,
       file.text # NoneText /\ Len(strip(file.text)) >= MIN_UPLOAD_TEXT_LEN >>

UploadRejections ==
    << "No filename provided",
       "Unsupported file type",
       "File size exceeds maximum allowed size (10MB)",
       MSG_EXTRACTION_FAILED,
       "Extracted text is too short or empty" >>

\* the first check the file fails, 0 when it passes all of them
FirstFailedCheck(file) ==
    LET passes == UploadPasses(file)
        failed == {i \in 1..Len(UploadRejections) : ~passes[i]}
    IN  IF failed = {} THEN 0
        ELSE CHOOSE i \in failed : \A j \in failed : i <= j

\* the handler answers an upload by its first failed check and ends the
\* request there without a completion call, or hands the text to the service
UploadAnsweredInOrder ==
    \A file \in UploadFiles, form \in UploadForms :
        (pc = "idle" /\ entry' = "/rewrite-upload"
            /\ rewrite_email_upload(file, form)) =>
            LET failed == FirstFailedCheck(file)
            IN  /\ completion_calls' = << >>
                /\ IF failed = 0
                   THEN /\ pc' = "rewrite_email"
                        /\ http' = NoneRec
                        /\ args'.email_text = file.text
                   ELSE /\ pc' = "idle"
                        /\ http' = ApiError("VALIDATION_ERROR",
                                            UploadRejections[failed])

\* an upload request has made at most one completion call, and one only
\* with a text that passed the length check
UploadCallsAfterChecks ==
    entry = "/rewrite-upload" =>
        /\ Len(completion_calls) <= 1
        /\ completion_calls # << >> =>
              /\ args.kind = "args"
              /\ Len(strip(args.email_text)) >= MIN_UPLOAD_TEXT_LEN

\* C30: on /rewrite-upload the checks run in the order filename present,
\* extension supported, size at most 10 MB (10 MB itself accepted), text
\* extracted, at least 10 characters after trimming: a request is rejected
\* with the message of the first check it fails and makes no completion
\* call; a request that passes all of them makes at most one.
C30_UploadCheckOrder ==
    []UploadCallsAfterChecks /\ [][UploadAnsweredInOrder]_vars

\* an upload of exactly 10 MB or less passed every check and was answered
\* after one completion call
C30_Witness ==
    /\ entry = "/rewrite-upload"
    /\ pc = "idle"
    /\ Len(completion_calls) = 1
    /\ http.kind = "success"

============================================================================
